---- MODULE Spec2Model ----
(***************************************************************************)
(* DHCP lease acquisition of cloud-init (cloudinit/net/dhcp.py): the three *)
(* client drivers IscDhclient, Dhcpcd and Udhcpc, the process supervision  *)
(* each dhcp_discovery performs, and get_newest_lease.                     *)
(*                                                                         *)
(* One driver instance and one interface per behaviour.  The external      *)
(* client binary, the operating system and the network-operations          *)
(* collaborator are the environment: their outcomes are chosen with \E.    *)
(* The interface is not an InfiniBand port (no temporary config file) and  *)
(* dhcp_log_func is None.                                                  *)
(***************************************************************************)
EXTENDS Integers, Sequences, FiniteSets, TLC

\* Number of dhcp_discovery calls made on the driver instance.
MaxAttempts == 2
\* sleep_cycles = int(self.timeout / sleep_time) in the source; scaled down.
SleepCycles == 2

Drivers == {"IscDhclient", "Dhcpcd", "Udhcpc"}
\* distro.net_ops is one of the two network-operations modules.
NetOps == {"iproute2", "bsd_netops"}
Attempts == 1..MaxAttempts

\* NoDHCPLeaseError and its three subclasses.
NoDHCPLeaseErrorKinds ==
    {"NoDHCPLeaseError", "InvalidDHCPLeaseFileError",
     "NoDHCPLeaseInterfaceError", "NoDHCPLeaseMissingDhclientError"}

\* ---- values ----
\* A lease: the empty dict, or the lease written by the client of attempt
\* `by` (by = 0: a lease that predates every attempt of this instance).
EmptyLease == [tag |-> "empty", by |-> 0]
LeaseOf(a) == [tag |-> "lease", by |-> a]

\* A file: absent, or present with some content.
Absent == [tag |-> "absent", by |-> 0]
EmptyFile == [tag |-> "empty", by |-> 0]
Garbage == [tag |-> "garbage", by |-> 0]
PidOf(a) == [tag |-> "pid", by |-> a]

NoResult == [kind |-> "none", exc |-> "", lease |-> EmptyLease]
Returned(l) == [kind |-> "return", exc |-> "", lease |-> l]
Raised(e) == [kind |-> "raise", exc |-> e, lease |-> EmptyLease]

VARIABLES
    driver,         \* class of the driver instance
    netops,         \* distro.net_ops
    pc,             \* position of the caller inside the current call
    op,             \* "none" | "discover" | "newest": the call in progress
    attempt,        \* number of dhcp_discovery calls started so far
    pid_file,       \* the client's pid file
    lease_file,     \* the file at self.lease_file
    lease_file_set, \* self.lease_file is not None (Udhcpc.__init__ sets None)
    proc,           \* proc[a]: the client process spawned by attempt a
    cycles,         \* iterations done of `for _ in range(sleep_cycles)`
    missing,        \* local `missing` of IscDhclient.dhcp_discovery
    daemonized,     \* local `daemonized` of IscDhclient.dhcp_discovery
    link_failed,    \* link_up raised in this call
    spawn_failed,   \* the subp call that runs the client raised in this call
    kill_failed,    \* os.kill raised in this call
    read_saw,       \* lease artifact (file or dump) as found by the lease read
    result,         \* outcome of the call, valid when pc = "done"
    steps,          \* what the current call has done so far, in order
    script_event,   \* argument udhcpc gave the companion script, if it ran
    routes,         \* argument of parse_static_routes
    static_routes,  \* outcome of parse_static_routes
    lease_dump,     \* argument of Dhcpcd.parse_dhcpcd_lease
    lease,          \* outcome of Dhcpcd.parse_dhcpcd_lease
    search_path,    \* the directories of $PATH, in order
    fs,             \* fs[dir][program]: what is at dir/program
    constructed,    \* outcome of constructing one driver class
    candidate,      \* index into ALL_DHCP_CLIENTS of the class tried next
    selected,       \* outcome of the driver selection
    lease_content,  \* content of the dhclient lease file
    newest,         \* outcome of IscDhclient.get_newest_lease on it
    dhcp_leases,    \* outcome of IscDhclient.parse_leases on it
    conc_driver,    \* conc_driver[i]: class of the client used on interface i
    conc_pc,        \* conc_pc[i]: position of the attempt on interface i
    run_files,      \* run_files[path]: who wrote the file at path, or Absent
    touched,        \* accesses made to files of another in-flight attempt
    conc_result,    \* conc_result[i]: outcome of the attempt on interface i
    addresses,      \* *addresses of dual_stack
    behaviour,      \* behaviour[addr]: what func(addr) does
    max_timeout,    \* max_timeout of dual_stack
    futures,        \* futures[i]: state of the call submitted for address i
    seen,           \* calls found finished when as_completed was entered
    first_done,     \* index of the call that finished first, 0 while none
    ds_pc,          \* position of the thread that runs dual_stack
    return_result,  \* outcome of dual_stack
    late_calls,     \* addresses func was called with after dual_stack ended
    requests,       \* addresses func was called with, in the order of the calls
    urls,           \* urls of wait_for_url
    max_wait,       \* max_wait of wait_for_url
    loop_n,         \* loop_n of wait_for_url
    connect_synchronously, \* connect_synchronously of wait_for_url
    url_idx,        \* position of `for url in urls` of read_url_serial
    wf_pc,          \* position of the caller of wait_for_url
    wf_result,      \* outcome of wait_for_url
    out,            \* stdout of dhcpcd, as the lines of out.split("\n")
    line_no,        \* position of `for line in reversed(...)`
    dh_pc,          \* position in the cleanup of Dhcpcd.dhcp_discovery
    kills,          \* os.kill calls made, by where the pid came from
    pid_file_queried, \* subp.subp([*command, "-P"]) has been called
    polls,          \* turns of `for _ in range(sleep_cycles)` taken
    dh_result,      \* outcome of Dhcpcd.dhcp_discovery
    lease_dirs,     \* the primary and the fallback lease directory
    latest_file,    \* outcome of get_newest_lease_file_from_distro
    rcs,            \* rcs of subp
    decode,         \* decode of subp
    sp,             \* what Popen and communicate gave
    subp_result     \* outcome of subp

\* The variables of the discovery protocol, and those of the pure parsers.
discovery_vars ==
    <<driver, netops, pc, op, attempt, pid_file, lease_file,
      lease_file_set, proc, cycles, missing, daemonized, link_failed,
      spawn_failed, kill_failed, read_saw, result, steps, script_event>>
parser_vars == <<routes, static_routes, lease_dump, lease>>

select_vars == <<search_path, fs, constructed, candidate, selected>>
leasefile_vars == <<lease_content, newest, dhcp_leases>>
conc_vars == <<conc_driver, conc_pc, run_files, touched, conc_result>>
dual_vars ==
    <<addresses, behaviour, max_timeout, futures, seen, first_done, ds_pc,
      return_result, late_calls, requests>>
wait_vars ==
    <<urls, max_wait, loop_n, connect_synchronously, url_idx, wf_pc,
      wf_result>>
url_vars == <<dual_vars, wait_vars>>
cleanup_vars ==
    <<out, line_no, dh_pc, kills, pid_file_queried, polls, dh_result>>
distro_vars == <<lease_dirs, latest_file>>
subp_vars == <<rcs, decode, sp, subp_result>>
tail_vars == <<cleanup_vars, distro_vars, subp_vars>>
other_vars ==
    <<select_vars, leasefile_vars, conc_vars, url_vars, tail_vars>>

vars == <<discovery_vars, parser_vars, other_vars>>

\* No parser has been called.
NotCalled == [kind |-> "none", exc |-> "", value |-> <<>>]
ParsersIdle ==
    /\ routes = <<>>
    /\ static_routes = NotCalled
    /\ lease_dump = <<>>
    /\ lease = NotCalled

\* Nothing constructed or selected, no lease file content looked at.
SelectIdle ==
    /\ search_path = <<>>
    /\ fs = <<>>
    /\ constructed = NotCalled
    /\ candidate = 0
    /\ selected = NotCalled
LeaseFileIdle ==
    /\ lease_content = <<>>
    /\ newest = NotCalled
    /\ dhcp_leases = NotCalled
ConcIdle ==
    /\ conc_driver = <<>>
    /\ conc_pc = <<>>
    /\ run_files = <<>>
    /\ touched = {}
    /\ conc_result = <<>>

DualIdle ==
    /\ addresses = <<>>
    /\ behaviour = <<>>
    /\ max_timeout = "None"
    /\ futures = <<>>
    /\ seen = {}
    /\ first_done = 0
    /\ ds_pc = "idle"
    /\ return_result = NotCalled
    /\ late_calls = {}
    /\ requests = <<>>

WaitIdle ==
    /\ urls = <<>>
    /\ max_wait = "None"
    /\ loop_n = 0
    /\ connect_synchronously = FALSE
    /\ url_idx = 0
    /\ wf_pc = "idle"
    /\ wf_result = NotCalled

UrlIdle ==
    /\ DualIdle
    /\ WaitIdle

\* dhcpcd not started; no lease directory looked at; subp not called.
CleanupIdle ==
    /\ out = <<>>
    /\ line_no = 0
    /\ dh_pc = "idle"
    /\ kills = <<>>
    /\ pid_file_queried = FALSE
    /\ polls = 0
    /\ dh_result = NotCalled

DistroIdle ==
    /\ lease_dirs = <<>>
    /\ latest_file = NotCalled

SubpIdle ==
    /\ rcs = [given |-> FALSE, list |-> {}]
    /\ decode = "replace"
    /\ sp = [kind |-> "none", rc |-> 0, errno |-> 0, utf8 |-> TRUE]
    /\ subp_result = [kind |-> "none", exc |-> "", exit_code |-> {}]

TailIdle ==
    /\ CleanupIdle
    /\ DistroIdle
    /\ SubpIdle

OthersIdle ==
    /\ TailIdle
    /\ SelectIdle
    /\ LeaseFileIdle
    /\ ConcIdle
    /\ UrlIdle

Live(a) == proc[a] \in {"running", "daemon"}

DiscoveryInit ==
    /\ driver \in Drivers
    /\ netops \in NetOps
    /\ pc = "idle"
    /\ op = "none"
    /\ attempt = 0
    /\ pid_file = Absent
    /\ lease_file = Absent
    /\ lease_file_set = (driver = "IscDhclient")
    /\ proc = [a \in Attempts |-> "unborn"]
    /\ cycles = 0
    /\ missing = {}
    /\ daemonized = FALSE
    /\ link_failed = FALSE
    /\ spawn_failed = FALSE
    /\ kill_failed = FALSE
    /\ read_saw = "none"
    /\ result = NoResult
    /\ steps = <<>>
    /\ script_event = "not_run"

Init ==
    /\ DiscoveryInit
    /\ ParsersIdle
    /\ OthersIdle

\* ---- the end of a call ----
Finish(r) ==
    /\ pc' = "done"
    /\ result' = r

\* os.remove under suppress(FileNotFoundError): the file is gone afterwards.
Remove(f) == Absent

\* A dhcp_discovery that goes straight to running the client.
dhcp_discovery_SkipsLinkUp ==
    /\ pc = "idle"
    /\ attempt < MaxAttempts
    /\ attempt' = attempt + 1
    /\ op' = "discover"
    /\ pc' = "spawn"
    /\ cycles' = 0
    /\ missing' = {}
    /\ daemonized' = FALSE
    /\ link_failed' = FALSE
    /\ spawn_failed' = FALSE
    /\ kill_failed' = FALSE
    /\ read_saw' = "none"
    /\ result' = NoResult
    /\ steps' = <<>>
    /\ script_event' = "not_run"
    /\ UNCHANGED <<parser_vars, other_vars>>
    /\ UNCHANGED <<driver, netops, pid_file, lease_file, lease_file_set, proc>>

\* ---- dhcp_discovery: entry ----
\* The caller starts one discovery attempt on the driver instance.
dhcp_discovery ==
    /\ pc = "idle"
    /\ attempt < MaxAttempts
    /\ attempt' = attempt + 1
    /\ op' = "discover"
    /\ pc' = IF driver = "Dhcpcd" THEN "link_up" ELSE "prepare"
    /\ cycles' = 0
    /\ missing' = {}
    /\ daemonized' = FALSE
    /\ link_failed' = FALSE
    /\ spawn_failed' = FALSE
    /\ kill_failed' = FALSE
    /\ read_saw' = "none"
    /\ result' = NoResult
    /\ steps' = <<>>
    /\ script_event' = "not_run"
    /\ UNCHANGED <<parser_vars, other_vars>>
    /\ UNCHANGED <<driver, netops, pid_file, lease_file, lease_file_set, proc>>

\* IscDhclient: `with suppress(FileNotFoundError): os.remove(pid_file);
\* os.remove(self.lease_file)`.  The first os.remove that raises leaves the
\* with block, so the lease file is removed only when the pid file existed.
IscPrepare ==
    /\ pc = "prepare"
    /\ driver = "IscDhclient"
    /\ pid_file' = Remove(pid_file)
    /\ lease_file' = IF pid_file = Absent THEN lease_file
                     ELSE Remove(lease_file)
    /\ pc' = "link_up"
    /\ steps' = Append(steps, "prepare")
    /\ UNCHANGED script_event
    /\ UNCHANGED <<parser_vars, other_vars>>
    /\ UNCHANGED <<driver, netops, op, attempt, lease_file_set, proc, cycles,
                   missing, daemonized, link_failed, spawn_failed,
                   kill_failed, read_saw, result>>

\* Udhcpc: self.lease_file is set, then removed under suppress.
UdhcpcPrepare ==
    /\ pc = "prepare"
    /\ driver = "Udhcpc"
    /\ lease_file_set' = TRUE
    /\ lease_file' = Remove(lease_file)
    /\ pc' = "link_up"
    /\ steps' = Append(steps, "prepare")
    /\ UNCHANGED script_event
    /\ UNCHANGED <<parser_vars, other_vars>>
    /\ UNCHANGED <<driver, netops, op, attempt, pid_file, proc, cycles,
                   missing, daemonized, link_failed, spawn_failed,
                   kill_failed, read_saw, result>>

\* Outcomes of link_up: iproute2.link_up runs `ip link set dev .. up`
\* through subp, which raises ProcessExecutionError on failure;
\* bsd_netops.link_up raises FileNotFoundError.
LinkUpOutcomes ==
    IF netops = "iproute2" THEN {"ok", "ProcessExecutionError"}
    ELSE {"FileNotFoundError"}

\* distro.net_ops.link_up(interface): not inside any try block of the three
\* dhcp_discovery methods, so what it raises leaves the call unchanged.
link_up ==
    /\ pc = "link_up"
    /\ \E o \in LinkUpOutcomes :
          IF o = "ok"
          THEN /\ pc' = "spawn"
               /\ UNCHANGED <<link_failed, result>>
          ELSE /\ link_failed' = TRUE
               /\ Finish(Raised(o))
    /\ steps' = Append(steps, "link_up")
    /\ UNCHANGED script_event
    /\ UNCHANGED <<parser_vars, other_vars>>
    /\ UNCHANGED <<driver, netops, op, attempt, pid_file, lease_file,
                   lease_file_set, proc, cycles, missing, daemonized,
                   spawn_failed, kill_failed, read_saw>>

\* What subp.subp can do with a command: return (exit code in rcs), raise
\* ProcessExecutionError (exit code not in rcs, or OSError from Popen).
SubpOutcomes == {"ok", "bad_rc", "os_error"}

\* subp: sp = subprocess.Popen(args, ...); out, err = sp.communicate(data).
\* Popen has started the client; communicate() is given no timeout and
\* returns only when the client process has exited.
subp_Popen ==
    /\ pc = "spawn"
    /\ driver \in {"IscDhclient", "Udhcpc"}
    /\ proc[attempt] = "unborn"
    /\ proc' = [proc EXCEPT ![attempt] = "foreground"]
    /\ steps' = Append(steps, "spawn")
    /\ UNCHANGED script_event
    /\ UNCHANGED <<parser_vars, other_vars>>
    /\ UNCHANGED <<driver, netops, pc, op, attempt, pid_file, lease_file,
                   lease_file_set, cycles, missing, daemonized, link_failed,
                   spawn_failed, kill_failed, read_saw, result>>

\* How the subp call of the client can end, given the process it waits on:
\* Popen raised OSError (nothing was started), or the started process has
\* exited with a code inside or outside rcs.
SubpEnds(a) ==
    IF proc[a] = "unborn" THEN {"os_error"}
    ELSE IF proc[a] = "fg_exited" THEN {"ok", "bad_rc"}
    ELSE {}

\* IscDhclient: subp.subp(distro.build_dhclient_cmd(...)) inside try/except
\* ProcessExecutionError -> raise NoDHCPLeaseError.  subp returns when the
\* foreground dhclient has exited; the client it forked goes on running.
IscSpawn ==
    /\ pc = "spawn"
    /\ driver = "IscDhclient"
    /\ \E o \in SubpOutcomes \cap SubpEnds(attempt) :
          IF o = "ok"
          THEN /\ proc' = [proc EXCEPT ![attempt] = "running"]
               /\ pc' = "await"
               /\ steps' = Append(steps, "spawned")
               /\ UNCHANGED <<spawn_failed, result>>
          ELSE /\ spawn_failed' = TRUE
               /\ Finish(Raised("NoDHCPLeaseError"))
               /\ proc' = IF o = "bad_rc"
                          THEN [proc EXCEPT ![attempt] = "exited"]
                          ELSE proc
               /\ steps' = IF o = "os_error" THEN Append(steps, "spawn")
                           ELSE steps
    /\ UNCHANGED script_event
    /\ UNCHANGED <<parser_vars, other_vars>>
    /\ UNCHANGED <<driver, netops, op, attempt, pid_file, lease_file,
                   lease_file_set, cycles, missing, daemonized, link_failed,
                   kill_failed, read_saw>>

\* Dhcpcd: subp.subp(command, timeout=self.timeout).  subp takes no `timeout`
\* keyword (subp.py: signature of subp), so the call raises TypeError before
\* any process is started; the surrounding try catches only
\* ProcessExecutionError.
DhcpcdSpawn ==
    /\ pc = "spawn"
    /\ driver = "Dhcpcd"
    /\ spawn_failed' = TRUE
    /\ Finish(Raised("TypeError"))
    /\ steps' = Append(steps, "spawn")
    /\ UNCHANGED script_event
    /\ UNCHANGED <<parser_vars, other_vars>>
    /\ UNCHANGED <<driver, netops, op, attempt, pid_file, lease_file,
                   lease_file_set, proc, cycles, missing, daemonized,
                   link_failed, kill_failed, read_saw>>

\* The first argument udhcpc gives the companion script ("" for none), or
\* "not_run" when udhcpc ended without running it.
UdhcpcEvents ==
    {"bound", "renew", "deconfig", "leasefail", "nak", "unknown", ""}

\* UDHCPC_SCRIPT, exit status: `[ -z "$1" ] && ... exit 1`; the bound|renew
\* case falls out of the case statement; every other case ends in exit 1.
UdhcpcScriptExit(event) ==
    IF event \in {"bound", "renew"} THEN 0 ELSE 1

\* UDHCPC_SCRIPT, file at $LEASE_FILE: `cat <<JSON > "$LEASE_FILE"` in the
\* bound|renew case only, leaving the lease or, when the write is cut short,
\* the empty file the redirection created; Absent stands for no write.
UdhcpcScriptWrites(a, event) ==
    IF event \in {"bound", "renew"} THEN {LeaseOf(a), EmptyFile}
    ELSE {Absent}

\* Udhcpc: subp.subp(cmd, update_env={"LEASE_FILE": ...}) inside try/except
\* ProcessExecutionError -> raise NoDHCPLeaseError.  udhcpc runs in the
\* foreground (-f -q -n): it has exited when subp returns.  Its exit code
\* is its own: the code does not see the script's.
UdhcpcSpawn ==
    /\ pc = "spawn"
    /\ driver = "Udhcpc"
    /\ \E o \in SubpOutcomes \cap SubpEnds(attempt) :
          IF o = "os_error"
          THEN /\ spawn_failed' = TRUE
               /\ Finish(Raised("NoDHCPLeaseError"))
               /\ steps' = Append(steps, "spawn")
               /\ UNCHANGED <<proc, lease_file, script_event>>
          ELSE /\ proc' = [proc EXCEPT ![attempt] = "exited"]
               /\ \E e \in UdhcpcEvents \cup {"not_run"} :
                     /\ script_event' = e
                     /\ \E w \in UdhcpcScriptWrites(attempt, e) :
                           lease_file' = IF w = Absent THEN lease_file
                                         ELSE w
               /\ IF o = "ok"
                  THEN /\ pc' = "read"
                       /\ steps' = Append(steps, "spawned")
                       /\ UNCHANGED <<spawn_failed, result>>
                  ELSE /\ spawn_failed' = TRUE
                       /\ Finish(Raised("NoDHCPLeaseError"))
                       /\ UNCHANGED steps
    /\ UNCHANGED <<parser_vars, other_vars>>
    /\ UNCHANGED <<driver, netops, op, attempt, pid_file, lease_file_set,
                   cycles, missing, daemonized, link_failed, kill_failed,
                   read_saw>>

\* util.wait_for_files([pid_file, self.lease_file], maxwait, naplen): returns
\* the empty set once both files exist, or the files still absent when
\* maxwait has elapsed.
WaitForFiles ==
    LET absent == {f \in {"pid_file", "lease_file"} :
                     IF f = "pid_file" THEN pid_file = Absent
                     ELSE lease_file = Absent}
    IN  {absent}

\* IscAwait with the soft failure turned into a raise: missing files at the
\* deadline end the call with InvalidDHCPLeaseFileError.
IscAwait_RaisesOnMissing ==
    /\ pc = "await"
    /\ driver = "IscDhclient"
    /\ \E m \in WaitForFiles :
          /\ missing' = m
          /\ IF m # {}
             THEN Finish(Raised("InvalidDHCPLeaseFileError"))
             ELSE /\ pc' = "loop"
                  /\ UNCHANGED result
    /\ steps' = Append(steps, "await")
    /\ UNCHANGED script_event
    /\ UNCHANGED <<parser_vars, other_vars>>
    /\ UNCHANGED <<driver, netops, op, attempt, pid_file, lease_file,
                   lease_file_set, proc, cycles, daemonized, link_failed,
                   spawn_failed, kill_failed, read_saw>>

\* IscDhclient: missing = util.wait_for_files(...); if missing: return {}.
IscAwait ==
    /\ pc = "await"
    /\ driver = "IscDhclient"
    /\ \E m \in WaitForFiles :
          /\ missing' = m
          /\ IF m # {}
             THEN Finish(Returned(EmptyLease))
             ELSE /\ pc' = "loop"
                  /\ UNCHANGED result
    /\ steps' = Append(steps, "await")
    /\ UNCHANGED script_event
    /\ UNCHANGED <<parser_vars, other_vars>>
    /\ UNCHANGED <<driver, netops, op, attempt, pid_file, lease_file,
                   lease_file_set, proc, cycles, daemonized, link_failed,
                   spawn_failed, kill_failed, read_saw>>

\* distro.get_proc_ppid(pid): 1 once the process has been reparented to
\* init, another value before that or when the process is gone.
get_proc_ppid(a) == IF proc[a] = "daemon" THEN 1 ELSE 0

\* An IscDaemonLoop that gives up with an error when the loop runs out.
IscDaemonLoop_ExhaustionRaises ==
    /\ pc = "loop"
    /\ driver = "IscDhclient"
    /\ IF cycles >= SleepCycles
       THEN \* loop exhausted: daemonized stays False, LOG.error, go on
            /\ Finish(Raised("NoDHCPLeaseError"))
            /\ UNCHANGED <<cycles, proc, daemonized, kill_failed, steps>>
       ELSE IF pid_file.tag # "pid"
       THEN \* FileNotFoundError or ValueError: sleep and iterate
            /\ cycles' = cycles + 1
            /\ UNCHANGED <<pc, proc, daemonized, kill_failed, result,
                           steps>>
       ELSE IF get_proc_ppid(pid_file.by) # 1
       THEN /\ cycles' = cycles + 1
            /\ UNCHANGED <<pc, proc, daemonized, kill_failed, result,
                           steps>>
       ELSE \* os.kill(pid, SIGKILL); the process may have gone since the
            \* parent pid was looked up (ProcessLookupError)
            \E gone \in BOOLEAN :
               IF gone
               THEN /\ proc' = [proc EXCEPT ![pid_file.by] = "exited"]
                    /\ kill_failed' = TRUE
                    /\ Finish(Raised("ProcessLookupError"))
                    /\ steps' = Append(steps, "kill")
                    /\ UNCHANGED <<cycles, daemonized>>
               ELSE /\ proc' = [proc EXCEPT ![pid_file.by] = "killed"]
                    /\ daemonized' = TRUE
                    /\ pc' = "read"
                    /\ steps' = Append(steps, "kill")
                    /\ UNCHANGED <<cycles, kill_failed, result>>
    /\ UNCHANGED script_event
    /\ UNCHANGED <<parser_vars, other_vars>>
    /\ UNCHANGED <<driver, netops, op, attempt, pid_file, lease_file,
                   lease_file_set, missing, link_failed, spawn_failed,
                   read_saw>>

\* An IscDaemonLoop that kills the pid it read without looking at its
\* parent pid.
IscDaemonLoop_KillsWithoutPpid ==
    /\ pc = "loop"
    /\ driver = "IscDhclient"
    /\ IF cycles >= SleepCycles
       THEN \* loop exhausted: daemonized stays False, LOG.error, go on
            /\ pc' = "read"
            /\ UNCHANGED <<cycles, proc, daemonized, kill_failed, result,
                           steps>>
       ELSE IF pid_file.tag # "pid"
       THEN \* FileNotFoundError or ValueError: sleep and iterate
            /\ cycles' = cycles + 1
            /\ UNCHANGED <<pc, proc, daemonized, kill_failed, result,
                           steps>>
       ELSE \* os.kill(pid, SIGKILL); the process may have gone since the
            \* parent pid was looked up (ProcessLookupError)
            \E gone \in BOOLEAN :
               IF gone
               THEN /\ proc' = [proc EXCEPT ![pid_file.by] = "exited"]
                    /\ kill_failed' = TRUE
                    /\ Finish(Raised("ProcessLookupError"))
                    /\ steps' = Append(steps, "kill")
                    /\ UNCHANGED <<cycles, daemonized>>
               ELSE /\ proc' = [proc EXCEPT ![pid_file.by] = "killed"]
                    /\ daemonized' = TRUE
                    /\ pc' = "read"
                    /\ steps' = Append(steps, "kill")
                    /\ UNCHANGED <<cycles, kill_failed, result>>
    /\ UNCHANGED script_event
    /\ UNCHANGED <<parser_vars, other_vars>>
    /\ UNCHANGED <<driver, netops, op, attempt, pid_file, lease_file,
                   lease_file_set, missing, link_failed, spawn_failed,
                   read_saw>>

\* An IscDaemonLoop that does not count the iterations that found no pid.
IscDaemonLoop_UncountedRetry ==
    /\ pc = "loop"
    /\ driver = "IscDhclient"
    /\ IF cycles >= SleepCycles
       THEN \* loop exhausted: daemonized stays False, LOG.error, go on
            /\ pc' = "read"
            /\ UNCHANGED <<cycles, proc, daemonized, kill_failed, result,
                           steps>>
       ELSE IF pid_file.tag # "pid"
       THEN \* FileNotFoundError or ValueError: iterate, uncounted
            /\ UNCHANGED <<cycles, pc, proc, daemonized, kill_failed, result,
                           steps>>
       ELSE IF get_proc_ppid(pid_file.by) # 1
       THEN /\ cycles' = cycles + 1
            /\ UNCHANGED <<pc, proc, daemonized, kill_failed, result,
                           steps>>
       ELSE \* os.kill(pid, SIGKILL); the process may have gone since the
            \* parent pid was looked up (ProcessLookupError)
            \E gone \in BOOLEAN :
               IF gone
               THEN /\ proc' = [proc EXCEPT ![pid_file.by] = "exited"]
                    /\ kill_failed' = TRUE
                    /\ Finish(Raised("ProcessLookupError"))
                    /\ steps' = Append(steps, "kill")
                    /\ UNCHANGED <<cycles, daemonized>>
               ELSE /\ proc' = [proc EXCEPT ![pid_file.by] = "killed"]
                    /\ daemonized' = TRUE
                    /\ pc' = "read"
                    /\ steps' = Append(steps, "kill")
                    /\ UNCHANGED <<cycles, kill_failed, result>>
    /\ UNCHANGED script_event
    /\ UNCHANGED <<parser_vars, other_vars>>
    /\ UNCHANGED <<driver, netops, op, attempt, pid_file, lease_file,
                   lease_file_set, missing, link_failed, spawn_failed,
                   read_saw>>

\* IscDhclient: one iteration of `for _ in range(sleep_cycles)`, or the end
\* of the loop.  os.kill sits in the else branch of the try, so what it
\* raises is caught by none of the except clauses.
IscDaemonLoop ==
    /\ pc = "loop"
    /\ driver = "IscDhclient"
    /\ IF cycles >= SleepCycles
       THEN \* loop exhausted: daemonized stays False, LOG.error, go on
            /\ pc' = "read"
            /\ UNCHANGED <<cycles, proc, daemonized, kill_failed, result,
                           steps>>
       ELSE IF pid_file.tag # "pid"
       THEN \* FileNotFoundError or ValueError: sleep and iterate
            /\ cycles' = cycles + 1
            /\ UNCHANGED <<pc, proc, daemonized, kill_failed, result,
                           steps>>
       ELSE IF get_proc_ppid(pid_file.by) # 1
       THEN /\ cycles' = cycles + 1
            /\ UNCHANGED <<pc, proc, daemonized, kill_failed, result,
                           steps>>
       ELSE \* os.kill(pid, SIGKILL); the process may have gone since the
            \* parent pid was looked up (ProcessLookupError)
            \E gone \in BOOLEAN :
               IF gone
               THEN /\ proc' = [proc EXCEPT ![pid_file.by] = "exited"]
                    /\ kill_failed' = TRUE
                    /\ Finish(Raised("ProcessLookupError"))
                    /\ steps' = Append(steps, "kill")
                    /\ UNCHANGED <<cycles, daemonized>>
               ELSE /\ proc' = [proc EXCEPT ![pid_file.by] = "killed"]
                    /\ daemonized' = TRUE
                    /\ pc' = "read"
                    /\ steps' = Append(steps, "kill")
                    /\ UNCHANGED <<cycles, kill_failed, result>>
    /\ UNCHANGED script_event
    /\ UNCHANGED <<parser_vars, other_vars>>
    /\ UNCHANGED <<driver, netops, op, attempt, pid_file, lease_file,
                   lease_file_set, missing, link_failed, spawn_failed,
                   read_saw>>

\* IscDhclient.get_newest_lease: {} when the file is absent (suppressed
\* FileNotFoundError), empty, or holds no lease block; else the last lease.
IscNewestLease ==
    IF lease_file.tag = "lease" THEN Returned(LeaseOf(lease_file.by))
    ELSE Returned(EmptyLease)

\* Udhcpc.get_newest_lease: util.load_json(util.load_file(self.lease_file)),
\* with nothing caught.
UdhcpcNewestLease ==
    IF ~lease_file_set THEN Raised("TypeError")
    ELSE IF lease_file.tag = "absent" THEN Raised("FileNotFoundError")
    ELSE IF lease_file.tag = "lease" THEN Returned(LeaseOf(lease_file.by))
    ELSE Raised("ValueError")

\* What `dhcpcd --dumplease --ipv4only <interface>` can give: a non-zero
\* exit (no lease), an empty dump, or a dump of key='value' lines.
DumpOutcomes == {"bad_rc", "empty", "dump"}

\* Dhcpcd.get_newest_lease: ProcessExecutionError -> NoDHCPLeaseError;
\* parse_dhcpcd_lease builds dict([a.split("=") ...]), which raises
\* ValueError on the single empty line of an empty dump.
DhcpcdNewestLease(dump) ==
    IF dump = "bad_rc" THEN Raised("NoDHCPLeaseError")
    ELSE IF dump = "empty" THEN Raised("ValueError")
    ELSE Returned(LeaseOf(0))

\* IscDhclient: lease = self.get_newest_lease(interface); if lease: return
\* lease; raise InvalidDHCPLeaseFileError().
IscRead ==
    /\ pc = "read"
    /\ driver = "IscDhclient"
    /\ read_saw' = lease_file.tag
    /\ IF IscNewestLease.lease # EmptyLease
       THEN Finish(IscNewestLease)
       ELSE Finish(Raised("InvalidDHCPLeaseFileError"))
    /\ steps' = Append(steps, "read")
    /\ UNCHANGED script_event
    /\ UNCHANGED <<parser_vars, other_vars>>
    /\ UNCHANGED <<driver, netops, op, attempt, pid_file, lease_file,
                   lease_file_set, proc, cycles, missing, daemonized,
                   link_failed, spawn_failed, kill_failed>>

\* Udhcpc: return self.get_newest_lease(interface).
UdhcpcRead ==
    /\ pc = "read"
    /\ driver = "Udhcpc"
    /\ read_saw' = lease_file.tag
    /\ Finish(UdhcpcNewestLease)
    /\ steps' = Append(steps, "read")
    /\ UNCHANGED script_event
    /\ UNCHANGED <<parser_vars, other_vars>>
    /\ UNCHANGED <<driver, netops, op, attempt, pid_file, lease_file,
                   lease_file_set, proc, cycles, missing, daemonized,
                   link_failed, spawn_failed, kill_failed>>

\* ---- get_newest_lease called on its own ----
get_newest_lease ==
    /\ pc = "idle"
    /\ op' = "newest"
    /\ \/ /\ driver = "IscDhclient"
          /\ read_saw' = lease_file.tag
          /\ Finish(IscNewestLease)
       \/ /\ driver = "Udhcpc"
          /\ read_saw' = lease_file.tag
          /\ Finish(UdhcpcNewestLease)
       \/ /\ driver = "Dhcpcd"
          /\ \E d \in DumpOutcomes :
                /\ read_saw' = d
                /\ Finish(DhcpcdNewestLease(d))
    /\ steps' = <<"read">>
    /\ UNCHANGED script_event
    /\ UNCHANGED <<parser_vars, other_vars>>
    /\ UNCHANGED <<driver, netops, attempt, pid_file, lease_file,
                   lease_file_set, proc, cycles, missing, daemonized,
                   link_failed, spawn_failed, kill_failed>>

\* The call is over: the caller has the result.
Return ==
    /\ pc = "done"
    /\ pc' = "idle"
    /\ op' = "none"
    /\ result' = NoResult
    /\ read_saw' = "none"
    /\ steps' = <<>>
    /\ script_event' = "not_run"
    /\ UNCHANGED <<parser_vars, other_vars>>
    /\ UNCHANGED <<driver, netops, attempt, pid_file, lease_file,
                   lease_file_set, proc, cycles, missing, daemonized,
                   link_failed, spawn_failed, kill_failed>>

\* ---- the spawned dhclient (environment) ----
ClientWritesPid ==
    \E a \in Attempts :
       /\ Live(a)
       /\ \E c \in {Garbage, PidOf(a)} : pid_file' = c
       /\ UNCHANGED <<steps, script_event>>
       /\ UNCHANGED <<parser_vars, other_vars>>
       /\ UNCHANGED <<driver, netops, pc, op, attempt, lease_file,
                      lease_file_set, proc, cycles, missing, daemonized,
                      link_failed, spawn_failed, kill_failed, read_saw,
                      result>>

ClientWritesLease ==
    \E a \in Attempts :
       /\ Live(a)
       /\ \E c \in {EmptyFile, LeaseOf(a)} : lease_file' = c
       /\ UNCHANGED <<steps, script_event>>
       /\ UNCHANGED <<parser_vars, other_vars>>
       /\ UNCHANGED <<driver, netops, pc, op, attempt, pid_file,
                      lease_file_set, proc, cycles, missing, daemonized,
                      link_failed, spawn_failed, kill_failed, read_saw,
                      result>>

\* The process subp waits on exits (dhclient after forking its daemon,
\* udhcpc after obtaining or giving up on a lease); nothing makes it do so.
ClientForegroundExits ==
    \E a \in Attempts :
       /\ proc[a] = "foreground"
       /\ proc' = [proc EXCEPT ![a] = "fg_exited"]
       /\ UNCHANGED <<steps, script_event>>
       /\ UNCHANGED <<parser_vars, other_vars>>
       /\ UNCHANGED <<driver, netops, pc, op, attempt, pid_file, lease_file,
                      lease_file_set, cycles, missing, daemonized,
                      link_failed, spawn_failed, kill_failed, read_saw,
                      result>>

ClientDaemonizes ==
    \E a \in Attempts :
       /\ proc[a] = "running"
       /\ proc' = [proc EXCEPT ![a] = "daemon"]
       /\ UNCHANGED <<steps, script_event>>
       /\ UNCHANGED <<parser_vars, other_vars>>
       /\ UNCHANGED <<driver, netops, pc, op, attempt, pid_file, lease_file,
                      lease_file_set, cycles, missing, daemonized,
                      link_failed, spawn_failed, kill_failed, read_saw,
                      result>>

ClientExits ==
    \E a \in Attempts :
       /\ Live(a)
       /\ proc' = [proc EXCEPT ![a] = "exited"]
       /\ UNCHANGED <<steps, script_event>>
       /\ UNCHANGED <<parser_vars, other_vars>>
       /\ UNCHANGED <<driver, netops, pc, op, attempt, pid_file, lease_file,
                      lease_file_set, cycles, missing, daemonized,
                      link_failed, spawn_failed, kill_failed, read_saw,
                      result>>

Next ==
    \/ dhcp_discovery
    \/ IscPrepare
    \/ UdhcpcPrepare
    \/ link_up
    \/ subp_Popen
    \/ IscSpawn
    \/ DhcpcdSpawn
    \/ UdhcpcSpawn
    \/ IscAwait
    \/ IscDaemonLoop
    \/ IscRead
    \/ UdhcpcRead
    \/ get_newest_lease
    \/ Return
    \/ ClientWritesPid
    \/ ClientWritesLease
    \/ ClientForegroundExits
    \/ ClientDaemonizes
    \/ ClientExits

Spec == Init /\ [][Next]_vars

\* The steps dhcp_discovery takes by itself, as opposed to the steps of the
\* client process and of the caller.
CallerStep ==
    \/ IscPrepare
    \/ UdhcpcPrepare
    \/ link_up
    \/ subp_Popen
    \/ IscSpawn
    \/ DhcpcdSpawn
    \/ UdhcpcSpawn
    \/ IscAwait
    \/ IscDaemonLoop
    \/ IscRead
    \/ UdhcpcRead

TypeOK ==
    /\ driver \in Drivers
    /\ netops \in NetOps
    /\ pc \in {"idle", "prepare", "link_up", "spawn", "await", "loop",
               "read", "done"}
    /\ attempt \in 0..MaxAttempts
    /\ cycles \in 0..SleepCycles
    /\ result.kind \in {"none", "return", "raise"}


\* ---------------------------------------------------------------------
\* parse_static_routes
\* ---------------------------------------------------------------------

\* Groups of tokens an RFC-3442 input is composed of, and tokens of a
\* pair-grammar input.
MaxGroups == 2
MaxPairTokens == 4

\* int(tok) for the tokens used here; a token outside the table ("x") is not
\* a number and int() raises ValueError on it.
IntOf ==
    [t \in {"-1", "0", "1", "8", "10", "16", "20", "24", "30", "32", "33",
            "40", "50", "56", "60", "70", "80", "128", "130", "168", "169",
            "191", "192", "240", "248", "254", "255"} |->
       CASE t = "-1" -> 0 - 1
         [] t = "0" -> 0     [] t = "1" -> 1     [] t = "8" -> 8
         [] t = "10" -> 10   [] t = "16" -> 16   [] t = "20" -> 20
         [] t = "24" -> 24   [] t = "30" -> 30   [] t = "32" -> 32
         [] t = "33" -> 33   [] t = "40" -> 40   [] t = "50" -> 50
         [] t = "56" -> 56   [] t = "60" -> 60   [] t = "70" -> 70
         [] t = "80" -> 80   [] t = "128" -> 128 [] t = "130" -> 130
         [] t = "168" -> 168 [] t = "169" -> 169 [] t = "191" -> 191
         [] t = "192" -> 192 [] t = "240" -> 240 [] t = "248" -> 248
         [] t = "254" -> 254 [] t = "255" -> 255]
IsInt(tok) == tok \in DOMAIN IntOf

\* The raw string is a sequence of pieces: tokens, and the one-character
\* pieces "," " " "." ";".
IsSeparator(c) == c \in {",", " ", "."}

\* routes.rstrip(";")
RECURSIVE rstrip_semicolon(_)
rstrip_semicolon(raw) ==
    IF raw # <<>> /\ raw[Len(raw)] = ";"
    THEN rstrip_semicolon(SubSeq(raw, 1, Len(raw) - 1))
    ELSE raw

\* [tok for tok in re.split(r"[, .]", rfc3442) if tok]
IscTokens(raw) ==
    SelectSeq(rstrip_semicolon(raw), LAMBDA c : ~IsSeparator(c))

\* routes.split(): split on whitespace only
SplitWhitespace(raw) == SelectSeq(raw, LAMBDA c : c # " ")

\* tokens[a:b] of Python (0-based, b exclusive, clipped), on 1-based tuples.
Slice(tokens, a, b) ==
    SubSeq(tokens, a + 1, IF b > Len(tokens) THEN Len(tokens) ELSE b)

RouteList(rs) == [kind |-> "return", exc |-> "", value |-> rs]
RouteError(e) == [kind |-> "raise", exc |-> e, value |-> <<>>]

\* ("%s/%s" % (net_address, net_length), gateway), with the dotted strings
\* kept as the tuples of tokens that ".".join joins.
Route(net_address, net_length, gateway) ==
    [net |-> net_address, len |-> net_length, gw |-> gateway]

\* req_toks of each branch of IscDhclient.parse_static_routes; 0 for a
\* net_length that no branch accepts.
ReqToks_Bucket24Takes9(net_length) ==
    IF net_length \in 17..32 THEN 9
    ELSE IF net_length \in 9..16 THEN 7
    ELSE IF net_length \in 1..8 THEN 6
    ELSE IF net_length = 0 THEN 5
    ELSE 0

ReqToks(net_length) ==
    IF net_length \in 25..32 THEN 9
    ELSE IF net_length \in 17..24 THEN 8
    ELSE IF net_length \in 9..16 THEN 7
    ELSE IF net_length \in 1..8 THEN 6
    ELSE IF net_length = 0 THEN 5
    ELSE 0

\* net_address of each branch: the destination tokens that follow the
\* prefix length at 0-based index idx, padded with "0" to four.
NetAddress(tokens, idx, net_length) ==
    IF net_length \in 25..32 THEN Slice(tokens, idx + 1, idx + 5)
    ELSE IF net_length \in 17..24
    THEN Slice(tokens, idx + 1, idx + 4) \o <<"0">>
    ELSE IF net_length \in 9..16
    THEN Slice(tokens, idx + 1, idx + 3) \o <<"0", "0">>
    ELSE IF net_length \in 1..8
    THEN Slice(tokens, idx + 1, idx + 2) \o <<"0", "0", "0">>
    ELSE <<"0", "0", "0", "0">>

\* IscRoutesLoop that forgets the routes parsed so far when it meets a
\* truncated route.
RECURSIVE IscRoutesLoop_TruncDropsAll(_, _, _, _)
IscRoutesLoop_TruncDropsAll(tokens, idx, current_idx, acc) ==
    IF idx >= Len(tokens) THEN RouteList(acc)
    ELSE IF idx < current_idx
    THEN IscRoutesLoop_TruncDropsAll(tokens, idx + 1, current_idx, acc)
    ELSE IF ~IsInt(tokens[idx + 1]) THEN RouteError("ValueError")
    ELSE LET net_length == IntOf[tokens[idx + 1]]
             req_toks == ReqToks(net_length)
         IN  IF req_toks = 0 THEN RouteList(acc)
             ELSE IF Len(tokens) - idx < req_toks THEN RouteList(<<>>)
             ELSE IscRoutesLoop_TruncDropsAll(tokens, idx + 1,
                     idx + req_toks,
                     Append(acc,
                        Route(NetAddress(tokens, idx, net_length),
                              net_length,
                              Slice(tokens, idx + req_toks - 4,
                                    idx + req_toks))))

\* IscRoutesLoop without the cursor: every token is read as a prefix
\* length, also the ones a route has consumed.
RECURSIVE IscRoutesLoop_NoCursor(_, _, _, _)
IscRoutesLoop_NoCursor(tokens, idx, current_idx, acc) ==
    IF idx >= Len(tokens) THEN RouteList(acc)
    ELSE IF ~IsInt(tokens[idx + 1]) THEN RouteError("ValueError")
    ELSE LET net_length == IntOf[tokens[idx + 1]]
             req_toks == ReqToks(net_length)
         IN  IF req_toks = 0 THEN RouteList(acc)
             ELSE IF Len(tokens) - idx < req_toks THEN RouteList(acc)
             ELSE IscRoutesLoop_NoCursor(tokens, idx + 1, idx + req_toks,
                     Append(acc,
                        Route(NetAddress(tokens, idx, net_length),
                              net_length,
                              Slice(tokens, idx + req_toks - 4,
                                    idx + req_toks))))

\* IscRoutesLoop that raises on a prefix length no branch accepts.
RECURSIVE IscRoutesLoop_BadPrefixRaises(_, _, _, _)
IscRoutesLoop_BadPrefixRaises(tokens, idx, current_idx, acc) ==
    IF idx >= Len(tokens) THEN RouteList(acc)
    ELSE IF idx < current_idx
    THEN IscRoutesLoop_BadPrefixRaises(tokens, idx + 1, current_idx, acc)
    ELSE IF ~IsInt(tokens[idx + 1]) THEN RouteError("ValueError")
    ELSE LET net_length == IntOf[tokens[idx + 1]]
             req_toks == ReqToks(net_length)
         IN  IF req_toks = 0 THEN RouteError("ValueError")
             ELSE IF Len(tokens) - idx < req_toks THEN RouteList(acc)
             ELSE IscRoutesLoop_BadPrefixRaises(tokens, idx + 1,
                     idx + req_toks,
                     Append(acc,
                        Route(NetAddress(tokens, idx, net_length),
                              net_length,
                              Slice(tokens, idx + req_toks - 4,
                                    idx + req_toks))))

\* `for idx, tok in enumerate(tokens)` with current_idx and static_routes;
\* idx is 0-based as in the source.
RECURSIVE IscRoutesLoop(_, _, _, _)
IscRoutesLoop(tokens, idx, current_idx, acc) ==
    IF idx >= Len(tokens) THEN RouteList(acc)
    ELSE IF idx < current_idx
    THEN IscRoutesLoop(tokens, idx + 1, current_idx, acc)
    ELSE IF ~IsInt(tokens[idx + 1]) THEN RouteError("ValueError")
    ELSE LET net_length == IntOf[tokens[idx + 1]]
             req_toks == ReqToks(net_length)
         IN  IF req_toks = 0 THEN RouteList(acc)
             ELSE IF Len(tokens) - idx < req_toks THEN RouteList(acc)
             ELSE IscRoutesLoop(tokens, idx + 1, idx + req_toks,
                     Append(acc,
                        Route(NetAddress(tokens, idx, net_length),
                              net_length,
                              Slice(tokens, idx + req_toks - 4,
                                    idx + req_toks))))

\* IscDhclient.parse_static_routes
IscParseStaticRoutes(raw) == IscRoutesLoop(IscTokens(raw), 0, 0, <<>>)

\* static_routes[start:] taken for static_routes[start::2]
EveryOther_NoStride(tokens, start) ==
    [i \in 1..(Len(tokens) - start) |-> tokens[start + i]]

\* static_routes[start::2]
EveryOther(tokens, start) ==
    [i \in 1..((Len(tokens) - start + 1) \div 2) |->
        tokens[start + 2 * i - 1]]

\* A zip that gives nothing when the two lists differ in length.
Zip_Strict(a, b) ==
    IF Len(a) # Len(b) THEN <<>>
    ELSE [i \in 1..Len(a) |-> <<a[i], b[i]>>]

\* zip(a, b): as long as the shorter of the two
Zip(a, b) ==
    [i \in 1..(IF Len(a) < Len(b) THEN Len(a) ELSE Len(b)) |->
        <<a[i], b[i]>>]

\* Dhcpcd.parse_static_routes and Udhcpc.parse_static_routes (the same body,
\* but for the warning Dhcpcd logs)
PairParseStaticRoutes(raw) ==
    LET toks == SplitWhitespace(raw)
    IN  IF toks # <<>>
        THEN RouteList(Zip(EveryOther(toks, 0), EveryOther(toks, 1)))
        ELSE RouteList(<<>>)

\* ---- the inputs parse_static_routes is applied to ----
\* An RFC-3442 input is up to MaxGroups groups, each a prefix-length token
\* followed by the first n of eight octet tokens: n short of, equal to or
\* beyond what the prefix length asks for.
PrefixToks == {"0", "8", "16", "24", "32", "33", "x"}
OctetToks == <<"10", "20", "30", "40", "50", "60", "70", "80">>
OctetCounts == {0, 4, 5, 6, 7, 8}
GroupChoices == [p : PrefixToks, n : OctetCounts]
GroupTokens(g) == <<g.p>> \o SubSeq(OctetToks, 1, g.n)

RECURSIVE Flatten(_)
Flatten(seqs) ==
    IF seqs = <<>> THEN <<>> ELSE Head(seqs) \o Flatten(Tail(seqs))

\* The tokens written out as a raw string: a separator between every two
\* tokens, and the end of the string.
RECURSIVE Join(_, _)
Join(tokens, sep) ==
    IF Len(tokens) <= 1 THEN tokens
    ELSE <<Head(tokens), sep>> \o Join(Tail(tokens), sep)

\* A lease file holds "32,169,254,...;"; other sources separate by blanks.
Styles ==
    {[sep |-> ",", end |-> <<";">>],
     [sep |-> " ", end |-> <<>>]}

\* The two examples of the docstring of IscDhclient.parse_static_routes.
DocExample1 ==
    Join(<<"32", "169", "254", "169", "254", "130", "56", "248", "255",
           "0", "130", "56", "240", "1">>, ",")
DocExample2 ==
    <<"24", ".", "191", ".", "168", ".", "128", " ",
      "192", ".", "168", ".", "128", ".", "1", ",",
      "0", " ", "192", ".", "168", ".", "128", ".", "1">>

\* Inputs with a negative number where a prefix length is read: alone,
\* before, after and between complete routes.
NegativePrefixInputs ==
    {Join(ts, ",") : ts \in
        {<<"-1">>,
         <<"-1", "10", "20", "30", "40">>,
         <<"0", "10", "20", "30", "40", "-1">>,
         <<"0", "10", "20", "30", "40", "-1", "0", "50", "60", "70", "80">>,
         <<"24", "10", "20", "30", "40", "50", "60", "70", "-1", "10">>}}

IscInputs ==
    {DocExample1, DocExample2} \cup NegativePrefixInputs \cup
    {Join(Flatten([i \in DOMAIN gs |-> GroupTokens(gs[i])]), st.sep)
        \o st.end :
        gs \in UNION {[1..k -> GroupChoices] : k \in 0..MaxGroups},
        st \in Styles}

PairToks == {"0.0.0.0/0", "10.0.0.1", "168.63.129.16/32"}
PairInputs ==
    {Join(ts, " ") : ts \in UNION {[1..k -> PairToks] : k \in 0..MaxPairTokens}}

RouteInit ==
    /\ DiscoveryInit
    /\ netops = "iproute2"
    /\ routes \in (IF driver = "IscDhclient" THEN IscInputs ELSE PairInputs)
    /\ static_routes = NotCalled
    /\ lease_dump = <<>>
    /\ lease = NotCalled
    /\ OthersIdle

\* IscDhclient.parse_static_routes(routes)
Isc_parse_static_routes ==
    /\ driver = "IscDhclient"
    /\ static_routes = NotCalled
    /\ static_routes' = IscParseStaticRoutes(routes)
    /\ UNCHANGED <<discovery_vars, other_vars, routes, lease_dump, lease>>

\* Dhcpcd.parse_static_routes(routes), Udhcpc.parse_static_routes(routes)
Pair_parse_static_routes ==
    /\ driver \in {"Dhcpcd", "Udhcpc"}
    /\ static_routes = NotCalled
    /\ static_routes' = PairParseStaticRoutes(routes)
    /\ UNCHANGED <<discovery_vars, other_vars, routes, lease_dump, lease>>

RouteNext ==
    \/ Isc_parse_static_routes
    \/ Pair_parse_static_routes

RouteSpec == RouteInit /\ [][RouteNext]_vars

\* ---------------------------------------------------------------------
\* Properties
\* ---------------------------------------------------------------------

\* The call in progress is a dhcp_discovery that has ended.
DiscoveryEnded == pc = "done" /\ op = "discover"

\* C1: when a dhcp_discovery call ends, however it ends, the client process
\* that this call spawned is no longer running (it was killed or has exited).
C1_NoClientLeftRunning ==
    DiscoveryEnded => ~Live(attempt)

\* C2: the Prepare step of IscDhclient.dhcp_discovery leaves neither the pid
\* file nor the lease file behind, whatever was there before.
C2_PrepareRemovesBoth ==
    [][IscPrepare => (pid_file' = Absent /\ lease_file' = Absent)]_vars

\* C3: a non-empty lease returned by dhcp_discovery was written by the
\* client spawned in the same attempt, never by an earlier one.
C3_LeaseIsFromThisAttempt ==
    (DiscoveryEnded /\ result.kind = "return" /\ result.lease # EmptyLease)
        => result.lease.by = attempt

\* C4: when the spawn succeeded and wait_for_files reported a missing pid or
\* lease file at its deadline, dhcp_discovery returns the empty lease and
\* raises nothing.
C4_ArtifactTimeoutReturnsEmpty ==
    (DiscoveryEnded /\ missing # {}) => result = Returned(EmptyLease)

\* C4 witness: a discovery whose spawn succeeded has ended with the pid file
\* reported missing and the empty lease returned.
C4_Witness ==
    /\ DiscoveryEnded
    /\ driver = "IscDhclient"
    /\ proc[attempt] # "unborn"
    /\ "pid_file" \in missing
    /\ result = Returned(EmptyLease)

\* C5: when the call that runs the external client fails, dhcp_discovery
\* raises NoDHCPLeaseError and no later step (wait, loop, read) has run.
C5_SpawnFailureRaisesNoLease ==
    (DiscoveryEnded /\ spawn_failed) =>
        /\ result = Raised("NoDHCPLeaseError")
        /\ missing = {} /\ cycles = 0 /\ read_saw = "none"

\* C6: a failure of the kill of the spawned client never makes
\* dhcp_discovery raise.
C6_KillFailureIsSwallowed ==
    (DiscoveryEnded /\ kill_failed) => result.kind = "return"

\* C7: every exception that escapes dhcp_discovery is NoDHCPLeaseError or one
\* of its subtypes.
C7_OnlyLeaseErrorsEscape ==
    (DiscoveryEnded /\ result.kind = "raise")
        => result.exc \in NoDHCPLeaseErrorKinds

\* C8: when link_up fails, dhcp_discovery raises the generic
\* NoDHCPLeaseError and the client binary has not been spawned.
C8_LinkUpFailureIsLeaseError ==
    (DiscoveryEnded /\ link_failed) =>
        /\ result = Raised("NoDHCPLeaseError")
        /\ proc[attempt] = "unborn"

\* C9: when the supervision sequence got as far as reading the lease and the
\* lease artifact is absent, empty or unparsable, dhcp_discovery raises
\* InvalidDHCPLeaseFileError.
C9_BadLeaseFileIsInvalidLeaseError ==
    (DiscoveryEnded /\ read_saw \in {"absent", "empty", "garbage"})
        => result = Raised("InvalidDHCPLeaseFileError")

\* C10: get_newest_lease returns the empty lease, without raising and
\* without touching any client process, when there is no lease to read.
C10_NewestLeaseEmptyWhenNone ==
    (pc = "done" /\ op = "newest" /\ read_saw \notin {"lease", "dump"})
        => result = Returned(EmptyLease)

\* C11: a dhcp_discovery call in progress can always take its next step by
\* itself: at no point does its progress wait, without a deadline, on the
\* external client exiting or writing a file.
C11_CallerNeverBlocked ==
    (op = "discover" /\ pc # "done") => ENABLED CallerStep

\* ---- reference decoding of RFC 3442 (spec section 4.3) ----
\* Number of destination octets the prefix length p is followed by.
DestOctets(p) ==
    IF p = 0 THEN 0 ELSE ((p - 1) \div 8) + 1

\* The destination octets right-padded with "0" to four.
PadToFour(octets) ==
    octets \o [i \in 1..(4 - Len(octets)) |-> "0"]

\* A token that is a number in lo..hi.
NumberIn(tok, lo, hi) == IsInt(tok) /\ IntOf[tok] \in lo..hi

\* The token sequence starts with one complete route: a prefix length in
\* 0..32, its destination octets and four gateway octets.
StartsWithRoute(toks) ==
    /\ toks # <<>>
    /\ NumberIn(toks[1], 0, 32)
    /\ Len(toks) >= 1 + DestOctets(IntOf[toks[1]]) + 4
    /\ \A i \in 2..(1 + DestOctets(IntOf[toks[1]]) + 4) :
          NumberIn(toks[i], 0, 255)

\* The token sequence is a sequence of complete routes and nothing else.
RECURSIVE WellFormed(_)
WellFormed(toks) ==
    \/ toks = <<>>
    \/ /\ StartsWithRoute(toks)
       /\ WellFormed(SubSeq(toks, 2 + DestOctets(IntOf[toks[1]]) + 4,
                            Len(toks)))

\* The routes of the complete leading routes of the token sequence.
RECURSIVE Decode(_)
Decode(toks) ==
    IF ~StartsWithRoute(toks) THEN <<>>
    ELSE LET p == IntOf[toks[1]]
             n == DestOctets(p)
         IN  <<Route(PadToFour(SubSeq(toks, 2, 1 + n)), p,
                     SubSeq(toks, 2 + n, 5 + n))>>
             \o Decode(SubSeq(toks, 6 + n, Len(toks)))

\* What is left of the token sequence after its complete leading routes.
RECURSIVE Rest(_)
Rest(toks) ==
    IF ~StartsWithRoute(toks) THEN toks
    ELSE Rest(SubSeq(toks, 2 + DestOctets(IntOf[toks[1]]) + 4, Len(toks)))

\* After complete routes comes a route whose prefix length asks for more
\* tokens than remain.
EndsTruncated(toks) ==
    LET rest == Rest(toks)
    IN  /\ rest # <<>>
        /\ NumberIn(rest[1], 0, 32)
        /\ Len(rest) < 1 + DestOctets(IntOf[rest[1]]) + 4

\* The plain token list of a raw string, whatever the separators.
TokensOf(raw) == SelectSeq(raw, LAMBDA c : c \notin {",", " ", ".", ";"})

Parsed == static_routes.kind # "none"

IscParsed == Parsed /\ driver = "IscDhclient"
PairParsed == Parsed /\ driver \in {"Dhcpcd", "Udhcpc"}

\* C12: parse_static_routes never raises, whatever the input, and returns
\* the routes parsed before the first malformed token.
C12_ParseNeverRaises ==
    Parsed =>
        /\ static_routes.kind = "return"
        /\ driver = "IscDhclient" =>
              static_routes.value = Decode(TokensOf(routes))

\* C13: on a well-formed RFC-3442 token sequence IscDhclient's parser gives
\* the routes of the reference decoder, and the docstring's two examples
\* give the documented routes.
C13_WellFormedDecoded ==
    IscParsed =>
        /\ WellFormed(TokensOf(routes)) =>
              static_routes = RouteList(Decode(TokensOf(routes)))
        /\ routes = DocExample1 =>
              static_routes = RouteList(
                <<Route(<<"169", "254", "169", "254">>, 32,
                        <<"130", "56", "248", "255">>),
                  Route(<<"0", "0", "0", "0">>, 0,
                        <<"130", "56", "240", "1">>)>>)
        /\ routes = DocExample2 =>
              static_routes = RouteList(
                <<Route(<<"191", "168", "128", "0">>, 24,
                        <<"192", "168", "128", "1">>),
                  Route(<<"0", "0", "0", "0">>, 0,
                        <<"192", "168", "128", "1">>)>>)

\* C13 witness: a well-formed input of a /24 route and a default route has
\* been parsed into two routes.
C13_Witness ==
    /\ IscParsed
    /\ WellFormed(TokensOf(routes))
    /\ Len(static_routes.value) = 2
    /\ static_routes.value[1].len = 24
    /\ static_routes.value[2].len = 0

\* C14: when the k-th route of the input is truncated, IscDhclient's parser
\* returns the k-1 routes before it, in order, and does not raise.
C14_TruncatedKeepsEarlierRoutes ==
    (IscParsed /\ EndsTruncated(TokensOf(routes))) =>
        static_routes = RouteList(Decode(TokensOf(routes)))

\* C14 witness: the second route was truncated and the first was returned.
C14_Witness ==
    /\ IscParsed
    /\ EndsTruncated(TokensOf(routes))
    /\ Len(static_routes.value) = 1

\* The pairs (t1,t2), (t3,t4), ... of a token list.
PairsOf(toks) ==
    [i \in 1..(Len(toks) \div 2) |-> <<toks[2 * i - 1], toks[2 * i]>>]

C16_OddOrEmptyGivesEmpty ==
    (PairParsed /\ (Len(TokensOf(routes)) = 0
                    \/ Len(TokensOf(routes)) % 2 = 1)) =>
        static_routes = RouteList(<<>>)

\* C16 amended: an empty token list or a single token gives the empty list;
\* an odd number 2n+1 >= 3 of tokens gives the n pairs of the first 2n
\* tokens, the last token being dropped.
C16_OddDropsLastToken ==
    (PairParsed /\ (Len(TokensOf(routes)) = 0
                    \/ Len(TokensOf(routes)) % 2 = 1)) =>
        /\ static_routes = RouteList(PairsOf(TokensOf(routes)))
        /\ Len(TokensOf(routes)) <= 1 => static_routes.value = <<>>

\* C16 witness: three tokens have been parsed into one pair.
C16_Witness ==
    /\ PairParsed
    /\ Len(TokensOf(routes)) = 3
    /\ Len(static_routes.value) = 1

\* ---------------------------------------------------------------------
\* Dhcpcd.parse_dhcpcd_lease: the dump text is a sequence of tokens, among
\* them the quote, the equals sign, the underscore, the hyphen and the
\* newline; a key or a value is the sequence of tokens it is spelled with.
\* ---------------------------------------------------------------------

\* Largest number of lines of a dump.
MaxLines == 3

NL == "\n"
Quote == "'"
Equals == "="

\* The interface argument of parse_dhcpcd_lease.
Interface == <<"eth0">>

KeyInterface == <<"interface">>
KeyIpAddress == <<"ip", "-", "address">>
KeyFixedAddress == <<"fixed", "-", "address">>
KeyClasslessStaticRoutes == <<"classless", "-", "static", "-", "routes">>
KeyStaticRoutes == <<"static", "_", "routes">>

\* str.strip(): leading and trailing newlines go.
RECURSIVE strip(_)
strip(text) ==
    IF text = <<>> THEN text
    ELSE IF Head(text) = NL THEN strip(Tail(text))
    ELSE IF text[Len(text)] = NL THEN strip(SubSeq(text, 1, Len(text) - 1))
    ELSE text

\* str.replace(old, ""): every occurrence of old goes.
remove(text, old) ==
    SelectSeq(text, LAMBDA t : t # old)

\* str.split(sep): always at least one field, empty fields included.
RECURSIVE split(_, _)
split(text, sep) ==
    IF \A i \in DOMAIN text : text[i] # sep THEN <<text>>
    ELSE LET i == CHOOSE j \in DOMAIN text :
                     /\ text[j] = sep
                     /\ \A k \in 1..(j - 1) : text[k] # sep
         IN  <<SubSeq(text, 1, i - 1)>>
             \o split(SubSeq(text, i + 1, Len(text)), sep)

\* A dict is the sequence of its (key, value) items in insertion order.
DictKeys(d) ==
    {d[i][1] : i \in DOMAIN d}

DictGet(d, key) ==
    d[CHOOSE i \in DOMAIN d : d[i][1] = key][2]

\* d[key] = value: an existing key keeps its place and takes the value.
DictSet(d, key, value) ==
    IF key \in DictKeys(d)
    THEN [i \in DOMAIN d |->
             IF d[i][1] = key THEN <<key, value>> ELSE d[i]]
    ELSE Append(d, <<key, value>>)

\* d without key, as left by d.pop(key)
DictPop(d, key) ==
    SelectSeq(d, LAMBDA item : item[1] # key)

\* dict(items), items taken in order
RECURSIVE DictFrom(_, _)
DictFrom(items, d) ==
    IF items = <<>> THEN d
    ELSE DictFrom(Tail(items), DictSet(d, items[1][1], items[1][2]))

\* A dict as a mapping: two dicts are equal when these are.
AsMap(d) ==
    [key \in DictKeys(d) |-> DictGet(d, key)]

\* key.replace("_", "-")
Hyphenate(key) ==
    [i \in DOMAIN key |-> IF key[i] = "_" THEN "-" ELSE key[i]]

\* The dict comprehension that leaves every key as it is.
RECURSIVE HyphenateKeys_KeepsKeys(_, _)
HyphenateKeys_KeepsKeys(items, d) ==
    IF items = <<>> THEN d
    ELSE HyphenateKeys_KeepsKeys(Tail(items),
            DictSet(d, items[1][1], items[1][2]))

\* {key.replace("_", "-"): value for key, value in lease.items()}
RECURSIVE HyphenateKeys(_, _)
HyphenateKeys(items, d) ==
    IF items = <<>> THEN d
    ELSE HyphenateKeys(Tail(items),
            DictSet(d, Hyphenate(items[1][1]), items[1][2]))

\* A name_map whose first destination is spelled with an underscore.
name_map_UnderscoreFixed ==
    << <<KeyIpAddress, <<"fixed", "_", "address">> >>,
       <<KeyClasslessStaticRoutes, KeyStaticRoutes>> >>

\* name_map, in the order its items are visited
name_map ==
    << <<KeyIpAddress, KeyFixedAddress>>,
       <<KeyClasslessStaticRoutes, KeyStaticRoutes>> >>

\* A rename that copies the value and leaves the source key in place.
Rename_KeepsSource(d, source, destination) ==
    IF source \in DictKeys(d)
    THEN DictSet(d, destination, DictGet(d, source))
    ELSE d

\* if source in lease: lease[destination] = lease.pop(source)
Rename(d, source, destination) ==
    IF source \in DictKeys(d)
    THEN DictSet(DictPop(d, source), destination, DictGet(d, source))
    ELSE d

\* for source, destination in name_map.items(): ...
RECURSIVE RenameAll(_, _)
RenameAll(d, names) ==
    IF names = <<>> THEN d
    ELSE RenameAll(Rename(d, names[1][1], names[1][2]), Tail(names))

\* The key rewrite followed by the alias renames.
Normalize(d) ==
    RenameAll(HyphenateKeys(d, <<>>), name_map)

LeaseDict(d) ==
    [kind |-> "return", exc |-> "", value |-> d]

LeaseError(e) ==
    [kind |-> "raise", exc |-> e, value |-> <<>>]

\* The lists [a.split("=") for a in ...split("\n")]
LeaseFields(dump) ==
    LET lines == split(remove(strip(dump), Quote), NL)
    IN  [i \in DOMAIN lines |-> split(lines[i], Equals)]

\* parse_dhcpcd_lease without lease["interface"] = interface.
ParseDhcpcdLease_KeepsDumpInterface(dump, interface) ==
    LET items == LeaseFields(dump)
    IN  IF \E i \in DOMAIN items : Len(items[i]) # 2
        THEN LeaseError("ValueError")
        ELSE LeaseDict(Normalize(DictFrom(items, <<>>)))

\* parse_dhcpcd_lease(lease_dump, interface): dict() raises ValueError on
\* an item that is not a pair.
ParseDhcpcdLease(dump, interface) ==
    LET items == LeaseFields(dump)
    IN  IF \E i \in DOMAIN items : Len(items[i]) # 2
        THEN LeaseError("ValueError")
        ELSE LeaseDict(Normalize(
                DictSet(DictFrom(items, <<>>), KeyInterface, interface)))

\* The lines a dump is made of: those of the docstring, spelling variants
\* of the same keys, and lines that are not key=value.
DumpLines ==
    { <<"ip", "_", "address", Equals, Quote, "192.168.0.212", Quote>>,
      <<"ip", "-", "address", Equals, "10.0.0.4">>,
      <<"classless", "_", "static", "_", "routes", Equals,
        Quote, "0.0.0.0/0", "10.0.0.1", Quote>>,
      <<"fixed", "-", "address", Equals, "172.16.0.9">>,
      <<"static", "_", "routes", Equals, "native">>,
      <<"subnet", "_", "mask", Equals, Quote, "255.255.240.0", Quote>>,
      <<"subnet", "-", "mask", Equals, "255.0.0.0">>,
      <<"dhcp", "_", "lease", "_", "time", Equals, Quote, "3600", Quote>>,
      <<"routers", Equals, Quote, "192.168.0.1", Quote>>,
      <<"interface", Equals, "wlan0">>,
      <<"vendor", Equals, "a", Equals, "b">>,
      <<"garbage">>,
      <<>> }

\* "\n".join(lines)
RECURSIVE JoinLines(_)
JoinLines(lines) ==
    IF lines = <<>> THEN <<>>
    ELSE IF Len(lines) = 1 THEN lines[1]
    ELSE lines[1] \o <<NL>> \o JoinLines(Tail(lines))

\* Dump texts: up to MaxLines lines, with or without the final newline.
Dumps ==
    {JoinLines(lines) \o end :
        lines \in UNION {[1..n -> DumpLines] : n \in 0..MaxLines},
        end \in {<<>>, <<NL>>}}

LeaseInit ==
    /\ DiscoveryInit
    /\ driver = "Dhcpcd"
    /\ netops = "iproute2"
    /\ routes = <<>>
    /\ static_routes = NotCalled
    /\ lease_dump \in Dumps
    /\ lease = NotCalled
    /\ OthersIdle

\* Dhcpcd.parse_dhcpcd_lease(lease_dump, interface)
parse_dhcpcd_lease ==
    /\ lease = NotCalled
    /\ lease' = ParseDhcpcdLease(lease_dump, Interface)
    /\ UNCHANGED <<discovery_vars, other_vars, routes, static_routes,
                   lease_dump>>

\* The normalization mapping applied to a lease that is its output.
NormalizeAgain ==
    /\ lease.kind = "return"
    /\ lease' = [lease EXCEPT !.kind = "renormalized",
                              !.value = Normalize(lease.value)]
    /\ UNCHANGED <<discovery_vars, other_vars, routes, static_routes,
                   lease_dump>>

LeaseNext ==
    \/ parse_dhcpcd_lease
    \/ NormalizeAgain

LeaseSpec == LeaseInit /\ [][LeaseNext]_vars

\* The (key, value) items of the dump's lines.
DumpItems ==
    LET items == LeaseFields(lease_dump)
    IN  {items[i] : i \in {j \in DOMAIN items : Len(items[j]) = 2}}

\* The values the dump carries under a key, in either spelling.
CarriedValues(key) ==
    {item[2] : item \in {it \in DumpItems : Hyphenate(it[1]) = key}}

Aliases == {KeyIpAddress, KeyClasslessStaticRoutes}

\* What parse_dhcpcd_lease returned, also after NormalizeAgain.
ParseOutput == ParseDhcpcdLease(lease_dump, Interface).value

\* C17: a lease returned by parse_dhcpcd_lease has no ip-address and no
\* classless-static-routes key in any spelling; a value the dump carried
\* under them is found under fixed-address and static_routes.
C17_AliasesRenamed ==
    lease.kind = "return" =>
        /\ \A key \in DictKeys(lease.value) : Hyphenate(key) \notin Aliases
        /\ CarriedValues(KeyIpAddress) # {} =>
              /\ KeyFixedAddress \in DictKeys(lease.value)
              /\ DictGet(lease.value, KeyFixedAddress)
                    \in CarriedValues(KeyIpAddress)
        /\ CarriedValues(KeyClasslessStaticRoutes) # {} =>
              /\ KeyStaticRoutes \in DictKeys(lease.value)
              /\ DictGet(lease.value, KeyStaticRoutes)
                    \in CarriedValues(KeyClasslessStaticRoutes)

\* C17 witness: a dump with ip_address and classless_static_routes has
\* been parsed and the values are under the canonical keys.
C17_Witness ==
    /\ lease.kind = "return"
    /\ CarriedValues(KeyIpAddress) = {<<"192.168.0.212">>}
    /\ CarriedValues(KeyClasslessStaticRoutes) # {}
    /\ DictGet(lease.value, KeyFixedAddress) = <<"192.168.0.212">>
    /\ DictGet(lease.value, KeyStaticRoutes) = <<"0.0.0.0/0", "10.0.0.1">>

\* C18: parse_dhcpcd_lease returns a lease for every dump text and never
\* raises.
C18_NormalizationTotal ==
    lease.kind # "none" => lease.kind # "raise"

\* C19 as stated: normalizing the output of normalization again gives an
\* identical mapping.
C19_NormalizeIdempotent ==
    lease.kind = "renormalized" =>
        AsMap(lease.value) = AsMap(ParseOutput)

\* C19 amended: normalizing the output again gives an identical mapping
\* when the output has no static_routes key; when it has one, the second
\* pass moves its value to static-routes.
C19_IdempotentWithoutStaticRoutes ==
    lease.kind = "renormalized" =>
        IF KeyStaticRoutes \notin DictKeys(ParseOutput)
        THEN AsMap(lease.value) = AsMap(ParseOutput)
        ELSE /\ KeyStaticRoutes \notin DictKeys(lease.value)
             /\ Hyphenate(KeyStaticRoutes) \in DictKeys(lease.value)
             /\ DictGet(lease.value, Hyphenate(KeyStaticRoutes))
                   = DictGet(ParseOutput, KeyStaticRoutes)

\* C19 witness: a lease with a renamed fixed-address and no static routes
\* has been normalized a second time.
C19_Witness ==
    /\ lease.kind = "renormalized"
    /\ CarriedValues(KeyIpAddress) # {}
    /\ KeyFixedAddress \in DictKeys(lease.value)
    /\ KeyStaticRoutes \notin DictKeys(ParseOutput)
    /\ Len(lease.value) >= 3

\* C20 as stated: every item of the dump other than the two aliases is in
\* the lease under its hyphenated key with its value.
C20_NoPairLost ==
    lease.kind = "return" =>
        \A item \in DumpItems :
            Hyphenate(item[1]) \notin Aliases =>
                /\ Hyphenate(item[1]) \in DictKeys(lease.value)
                /\ DictGet(lease.value, Hyphenate(item[1])) = item[2]

\* The item's hyphenated key is not interface, no other line carries a
\* different value under it, and it is not a fixed-address beside an
\* ip-address.
KeptApart(item) ==
    /\ Hyphenate(item[1]) # KeyInterface
    /\ CarriedValues(Hyphenate(item[1])) = {item[2]}
    /\ ~ (/\ Hyphenate(item[1]) = KeyFixedAddress
          /\ CarriedValues(KeyIpAddress) # {})

\* C20 amended: an item of the dump other than the two aliases is in the
\* lease under its hyphenated key with its value, provided the key is not
\* interface, no other line gives the same hyphenated key another value,
\* and the key is not fixed-address in a dump that also has ip-address.
C20_DistinctPairsKept ==
    lease.kind = "return" =>
        \A item \in DumpItems :
            (Hyphenate(item[1]) \notin Aliases /\ KeptApart(item)) =>
                /\ Hyphenate(item[1]) \in DictKeys(lease.value)
                /\ DictGet(lease.value, Hyphenate(item[1])) = item[2]

\* C20 witness: dhcp_lease_time and routers were in the dump and are in
\* the lease as dhcp-lease-time and routers.
C20_Witness ==
    /\ lease.kind = "return"
    /\ <<"dhcp", "-", "lease", "-", "time">> \in DictKeys(lease.value)
    /\ DictGet(lease.value, <<"dhcp", "-", "lease", "-", "time">>)
          = <<"3600">>
    /\ <<"routers">> \in DictKeys(lease.value)
    /\ DictGet(lease.value, <<"routers">>) = <<"192.168.0.1">>

\* ---------------------------------------------------------------------
\* Order of the steps of one call
\* ---------------------------------------------------------------------

Did(step) == \E i \in DOMAIN steps : steps[i] = step

\* Every occurrence of step b in the call comes after an occurrence of a.
Before(a, b) ==
    \A i \in DOMAIN steps :
        steps[i] = b => \E j \in 1..(i - 1) : steps[j] = a

\* C24: when the companion script is run for an event other than bound and
\* renew it writes nothing and exits non-zero, and dhcp_discovery of Udhcpc
\* then ends with a lease error.
C24_OtherEventsRaiseLeaseError ==
    (/\ driver = "Udhcpc" /\ op = "discover" /\ pc = "done"
     /\ script_event \in UdhcpcEvents \ {"bound", "renew"}) =>
        /\ UdhcpcScriptWrites(attempt, script_event) = {Absent}
        /\ UdhcpcScriptExit(script_event) # 0
        /\ result.kind = "raise"
        /\ result.exc \in NoDHCPLeaseErrorKinds

\* IscDhclient.dhcp_discovery went through the whole polling loop without
\* seeing a parent pid of 1, so without killing.
LoopExhausted ==
    /\ driver = "IscDhclient"
    /\ op = "discover"
    /\ pc \in {"read", "done"}
    /\ Did("await")
    /\ missing = {}
    /\ ~Did("kill")

C27_LinkUpThenSpawnThenRead ==
    op = "discover" =>
        /\ Before("link_up", "spawn")
        /\ Did("spawn") => ~link_failed
        /\ Before("spawned", "read")
        /\ Did("read") => ~spawn_failed

\* C27 witness: a call went link_up, spawn, read and returned a lease.
C27_Witness ==
    /\ op = "discover"
    /\ pc = "done"
    /\ Did("link_up") /\ Did("spawn") /\ Did("spawned") /\ Did("read")
    /\ result.kind = "return"

\* C28: in a discovery call the kill of the client is attempted before the
\* lease artifact is read.
C28_KillBeforeRead ==
    op = "discover" => Before("kill", "read")

\* ---------------------------------------------------------------------
\* Driver construction (DhcpClient.__init__, subp.which) and selection
\* ---------------------------------------------------------------------

\* Largest number of directories in $PATH.
MaxPathDirs == 2

Dirs == {"/usr/sbin", "/sbin"}

\* Class order with udhcpc first.
ALL_DHCP_CLIENTS_UdhcpcFirst == <<"Udhcpc", "Dhcpcd", "IscDhclient">>

ALL_DHCP_CLIENTS == <<"IscDhclient", "Dhcpcd", "Udhcpc">>

\* cls.client_name
client_name(cls) ==
    CASE cls = "IscDhclient" -> "dhclient"
      [] cls = "Dhcpcd" -> "dhcpcd"
      [] cls = "Udhcpc" -> "udhcpc"

Programs == {client_name(cls) : cls \in Drivers}

\* What the file system has at dir/program, as os.path.isfile and
\* os.access(.., X_OK) see it: nothing, a directory, a plain file, an
\* executable file.
Entries == [isfile : BOOLEAN, x_ok : BOOLEAN]

\* An is_exe that does not ask whether the file may be executed.
is_exe_AnyFile(dir, program) ==
    fs[dir][program].isfile

\* is_exe(fpath): os.path.isfile(fpath) and os.access(fpath, os.X_OK)
is_exe(dir, program) ==
    fs[dir][program].isfile /\ fs[dir][program].x_ok

\* Python's None
None == <<>>

\* which(program): `for path in search: ... if is_exe(...): return ppath`,
\* then `return None`.  The program names have no "/" in them.
which(program) ==
    LET hits == {i \in DOMAIN search_path : is_exe(search_path[i], program)}
    IN  IF hits = {} THEN None
        ELSE LET first == CHOOSE i \in hits : \A j \in hits : i <= j
             IN  <<search_path[first], program>>

Instance(cls, path) ==
    [kind |-> "return", exc |-> "",
     value |-> [cls |-> cls, dhcp_client_path |-> path]]

ConstructionError(e) ==
    [kind |-> "raise", exc |-> e, value |-> <<>>]

\* DhcpClient.__init__, run first by the __init__ of every driver class:
\* self.dhcp_client_path = subp.which(self.client_name); if not
\* self.dhcp_client_path: raise NoDHCPLeaseMissingDhclientError()
DhcpClient_init(cls) ==
    LET dhcp_client_path == which(client_name(cls))
    IN  IF dhcp_client_path = None
        THEN [kind |-> "raise", exc |-> "NoDHCPLeaseMissingDhclientError",
              value |-> [cls |-> cls, dhcp_client_path |-> None]]
        ELSE Instance(cls, dhcp_client_path)

SelectInit ==
    /\ DiscoveryInit
    /\ driver = "IscDhclient"
    /\ netops = "iproute2"
    /\ ParsersIdle
    /\ LeaseFileIdle
    /\ TailIdle
    /\ ConcIdle
    /\ UrlIdle
    /\ search_path \in UNION {[1..n -> Dirs] : n \in 0..MaxPathDirs}
    /\ fs \in [Dirs -> [Programs -> Entries]]
    /\ constructed = NotCalled
    /\ candidate = 0
    /\ selected = NotCalled

\* cls(): one driver class is constructed.
Construct ==
    /\ constructed = NotCalled
    /\ candidate = 0
    /\ \E cls \in Drivers : constructed' = DhcpClient_init(cls)
    /\ UNCHANGED <<discovery_vars, parser_vars, leasefile_vars,
                   tail_vars, conc_vars,
                   url_vars,
                   search_path, fs, candidate, selected>>

\* Selection: the next class of ALL_DHCP_CLIENTS is constructed; it is the
\* selection when its construction succeeds, and NoDHCPLeaseMissingDhclientError
\* makes the selection go on.
TryNextClient ==
    /\ constructed = NotCalled
    /\ selected = NotCalled
    /\ candidate < Len(ALL_DHCP_CLIENTS)
    /\ candidate' = candidate + 1
    /\ LET r == DhcpClient_init(ALL_DHCP_CLIENTS[candidate + 1])
       IN  selected' = IF r.kind = "return" THEN r ELSE NotCalled
    /\ UNCHANGED <<discovery_vars, parser_vars, leasefile_vars,
                   tail_vars, conc_vars,
                   url_vars,
                   search_path, fs, constructed>>

\* Selection: every class has failed to construct.
SelectionFails ==
    /\ selected = NotCalled
    /\ candidate = Len(ALL_DHCP_CLIENTS)
    /\ selected' = ConstructionError("NoDHCPLeaseMissingDhclientError")
    /\ UNCHANGED <<discovery_vars, parser_vars, leasefile_vars,
                   tail_vars, conc_vars,
                   url_vars,
                   search_path, fs, constructed, candidate>>

SelectNext ==
    \/ Construct
    \/ TryNextClient
    \/ SelectionFails

SelectSpec == SelectInit /\ [][SelectNext]_vars

\* The program is an executable file in a directory of the search path.
OnSearchPath(program) ==
    \E i \in DOMAIN search_path :
        fs[search_path[i]][program] = [isfile |-> TRUE, x_ok |-> TRUE]

\* The first directory of the search path that has the program as an
\* executable file.
FirstDirWith(program) ==
    LET at == {i \in DOMAIN search_path :
                 fs[search_path[i]][program] = [isfile |-> TRUE, x_ok |-> TRUE]}
    IN  search_path[CHOOSE i \in at : \A j \in at : i <= j]

\* C21: constructing a driver raises NoDHCPLeaseMissingDhclientError exactly
\* when its client program is not an executable file on the search path;
\* otherwise the instance records the path of the program.
C21_MissingBinaryIffRaises ==
    constructed.kind # "none" =>
        LET program == client_name(constructed.value.cls)
        IN  IF OnSearchPath(program)
            THEN /\ constructed.kind = "return"
                 /\ constructed.value.dhcp_client_path
                       = <<FirstDirWith(program), program>>
            ELSE /\ constructed.kind = "raise"
                 /\ constructed.exc = "NoDHCPLeaseMissingDhclientError"

\* C21 witness: dhclient was constructed with a non-executable dhclient in
\* the first directory of the path and an executable one in the second.
C21_Witness ==
    /\ constructed.kind = "return"
    /\ constructed.value.cls = "IscDhclient"
    /\ Len(search_path) = 2
    /\ fs[search_path[1]]["dhclient"] = [isfile |-> TRUE, x_ok |-> FALSE]
    /\ constructed.value.dhcp_client_path = <<search_path[2], "dhclient">>

\* The classes in the order of the selection whose program is on the path.
Available ==
    SelectSeq(<<"IscDhclient", "Dhcpcd", "Udhcpc">>,
              LAMBDA cls : OnSearchPath(client_name(cls)))

\* C22: the selection returns the first class in the order IscDhclient,
\* Dhcpcd, Udhcpc whose program is on the search path, and raises
\* NoDHCPLeaseMissingDhclientError exactly when none is.
C22_FirstPresentClientSelected ==
    selected.kind # "none" =>
        IF Available # <<>>
        THEN /\ selected.kind = "return"
             /\ selected.value.cls = Available[1]
        ELSE /\ selected.kind = "raise"
             /\ selected.exc = "NoDHCPLeaseMissingDhclientError"

\* C22 witness: dhclient and dhcpcd are missing and udhcpc was selected.
C22_Witness ==
    /\ selected.kind = "return"
    /\ selected.value.cls = "Udhcpc"
    /\ candidate = 3
    /\ ~OnSearchPath("dhclient")
    /\ ~OnSearchPath("dhcpcd")

\* ---------------------------------------------------------------------
\* IscDhclient.parse_leases and get_newest_lease on the text of a lease
\* file.  The text is a sequence of tokens: the opening "lease {", the
\* closing brace, the newline, the semicolon, the blank, the double quote,
\* the prefix "option " and the words of keys and values.
\* ---------------------------------------------------------------------

\* Largest number of lease blocks in a file.
MaxBlocks == 3

LeaseOpen == "lease {"
LeaseClose == "}"
Blank == " "
DoubleQuote == "\""
OptionPrefix == "option "

\* re.compile(r"lease {(?P<lease>.*?)}\n", re.DOTALL).findall(text): from
\* each "lease {" to the nearest closing brace that a newline follows.
RECURSIVE lease_regex_findall(_)
lease_regex_findall(text) ==
    IF \A i \in DOMAIN text : text[i] # LeaseOpen THEN <<>>
    ELSE LET i == CHOOSE k \in DOMAIN text :
                     /\ text[k] = LeaseOpen
                     /\ \A h \in 1..(k - 1) : text[h] # LeaseOpen
             ends == {j \in (i + 1)..(Len(text) - 1) :
                         text[j] = LeaseClose /\ text[j + 1] = NL}
         IN  IF ends = {} THEN <<>>
             ELSE LET j == CHOOSE e \in ends : \A f \in ends : e <= f
                  IN  <<SubSeq(text, i + 1, j - 1)>>
                      \o lease_regex_findall(SubSeq(text, j + 2, Len(text)))

\* line.strip(): blanks and newlines at both ends go.
RECURSIVE line_strip(_)
line_strip(text) ==
    IF text = <<>> THEN text
    ELSE IF Head(text) \in {Blank, NL} THEN line_strip(Tail(text))
    ELSE IF text[Len(text)] \in {Blank, NL}
    THEN line_strip(SubSeq(text, 1, Len(text) - 1))
    ELSE text

\* line.strip().replace('"', "").replace("option ", "")
clean_line(line) ==
    remove(remove(line_strip(line), DoubleQuote), OptionPrefix)

\* line.split(" ", 1): at most one split, at the first blank.
split_once(text, sep) ==
    IF \A i \in DOMAIN text : text[i] # sep THEN <<text>>
    ELSE LET i == CHOOSE k \in DOMAIN text :
                     /\ text[k] = sep
                     /\ \A h \in 1..(k - 1) : text[h] # sep
         IN  <<SubSeq(text, 1, i - 1), SubSeq(text, i + 1, Len(text))>>

\* lease_options of one block: the non-empty cleaned lines, each split once.
lease_options(block) ==
    LET lines == split(block, ";")
        cleaned == [i \in DOMAIN lines |-> clean_line(lines[i])]
        kept == SelectSeq(cleaned, LAMBDA line : line # <<>>)
    IN  [i \in DOMAIN kept |-> split_once(kept[i], Blank)]

\* IscDhclient.parse_leases(lease_content): dict(lease_options) raises
\* ValueError on an entry that did not split in two.
parse_leases(content) ==
    IF Len(content) = 0 THEN [kind |-> "return", exc |-> "", value |-> <<>>]
    ELSE LET blocks == lease_regex_findall(content)
             options == [i \in DOMAIN blocks |-> lease_options(blocks[i])]
         IN  IF \E i \in DOMAIN options :
                   \E k \in DOMAIN options[i] : Len(options[i][k]) # 2
             THEN [kind |-> "raise", exc |-> "ValueError", value |-> <<>>]
             ELSE [kind |-> "return", exc |-> "",
                   value |-> [i \in DOMAIN options |->
                                 DictFrom(options[i], <<>>)]]

\* IscDhclient.get_newest_lease once util.load_file has given the content:
\* if content: dhcp_leases = parse_leases(content); if dhcp_leases: return
\* dhcp_leases[-1]; return {}
IscGetNewestLease(content) ==
    IF content = <<>> THEN LeaseDict(<<>>)
    ELSE LET parsed == parse_leases(content)
         IN  IF parsed.kind = "raise" THEN parsed
             ELSE IF parsed.value # <<>>
             THEN LeaseDict(parsed.value[Len(parsed.value)])
             ELSE LeaseDict(<<>>)

\* The bodies of lease blocks as dhclient writes them, each with the
\* key/values it stands for.
LeaseBodies ==
    { [text |-> <<NL, Blank, Blank, "fixed-address", Blank, "10.0.0.4", ";",
                  NL, Blank, Blank, OptionPrefix, "subnet-mask", Blank,
                  "255.255.255.0", ";", NL>>,
       options |-> << <<(<<"fixed-address">>), <<"10.0.0.4">> >>,
                      <<(<<"subnet-mask">>), <<"255.255.255.0">> >> >>],
      [text |-> <<NL, Blank, Blank, "fixed-address", Blank, "10.0.0.5", ";",
                  NL, Blank, Blank, OptionPrefix, "routers", Blank,
                  "10.0.0.1", ";", NL>>,
       options |-> << <<(<<"fixed-address">>), <<"10.0.0.5">> >>,
                      <<(<<"routers">>), <<"10.0.0.1">> >> >>],
      [text |-> <<NL, Blank, Blank, "interface", Blank, DoubleQuote, "eth0",
                  DoubleQuote, ";", NL, Blank, Blank, "renew", Blank, "4",
                  Blank, "2017/07/27", Blank, "18:02:30", ";", NL>>,
       options |-> << <<(<<"interface">>), <<"eth0">> >>,
                      <<(<<"renew">>),
                        <<"4", Blank, "2017/07/27", Blank, "18:02:30">> >> >>],
      [text |-> <<Blank, "fixed-address", Blank, "10.0.0.6", ";", Blank>>,
       options |-> << <<(<<"fixed-address">>), <<"10.0.0.6">> >> >>] }

\* The text of a file of blocks, a newline between two blocks and, when
\* final_newline, one after the last.
RECURSIVE LeaseFileText(_, _)
LeaseFileText(bodies, final_newline) ==
    IF bodies = <<>> THEN <<>>
    ELSE <<LeaseOpen>> \o Head(bodies).text \o <<LeaseClose>>
         \o (IF Len(bodies) > 1 \/ final_newline THEN <<NL>> ELSE <<>>)
         \o LeaseFileText(Tail(bodies), final_newline)

LeaseFileChoices ==
    (UNION {[1..n -> LeaseBodies] : n \in 0..MaxBlocks}) \X BOOLEAN

\* Bodies with an entry that is a key alone, between entries with values
\* and by itself.
ValuelessBodies ==
    { [text |-> <<NL, Blank, Blank, "fixed-address", Blank, "10.0.0.7", ";",
                  NL, Blank, Blank, "interface", ";", NL>>,
       options |-> <<>>],
      [text |-> <<Blank, OptionPrefix, "routers", ";", Blank>>,
       options |-> <<>>] }

AnyLeaseFileChoices ==
    (UNION {[1..n -> LeaseBodies \cup ValuelessBodies] :
               n \in 0..MaxBlocks}) \X BOOLEAN

LeaseFileInit ==
    /\ DiscoveryInit
    /\ driver = "IscDhclient"
    /\ netops = "iproute2"
    /\ ParsersIdle
    /\ SelectIdle
    /\ ConcIdle
    /\ UrlIdle
    /\ TailIdle
    /\ \E c \in AnyLeaseFileChoices :
          lease_content = LeaseFileText(c[1], c[2])
    /\ newest = NotCalled
    /\ dhcp_leases = NotCalled

\* IscDhclient.get_newest_lease(interface) with the file holding
\* lease_content.
Isc_get_newest_lease ==
    /\ newest = NotCalled
    /\ newest' = IscGetNewestLease(lease_content)
    /\ UNCHANGED <<discovery_vars, parser_vars, select_vars, conc_vars,
                   url_vars, tail_vars, lease_content, dhcp_leases>>

\* IscDhclient.parse_leases(lease_content)
Isc_parse_leases ==
    /\ dhcp_leases = NotCalled
    /\ dhcp_leases' = parse_leases(lease_content)
    /\ UNCHANGED <<discovery_vars, parser_vars, select_vars, conc_vars,
                   url_vars, tail_vars, lease_content, newest>>

LeaseFileNext ==
    \/ Isc_get_newest_lease
    \/ Isc_parse_leases

LeaseFileSpec == LeaseFileInit /\ [][LeaseFileNext]_vars

\* C23: for a file of one or more lease blocks separated by newlines, with
\* or without a newline after the last block, get_newest_lease returns the
\* key/values of the last block.
C23_LastBlockReturned ==
    newest.kind # "none" =>
        \A c \in LeaseFileChoices :
            (c[1] # <<>> /\ lease_content = LeaseFileText(c[1], c[2])) =>
                /\ newest.kind = "return"
                /\ AsMap(newest.value) = AsMap(c[1][Len(c[1])].options)

\* ---------------------------------------------------------------------
\* Two discovery attempts in flight at once, one on each interface, each
\* with a client object of its own, on one filesystem.
\* ---------------------------------------------------------------------

Ifaces == {"eth0", "eth1"}
ConcDrivers == {"IscDhclient", "Udhcpc"}

\* A file left behind by an earlier, finished run.
Stale == "stale"

\* No file at the path.
NoFile == "absent"

\* Outcomes of an attempt; lease_of names whose lease was returned.
ConcNotCalled == [kind |-> "none", exc |-> "", lease_of |-> ""]
ConcReturned(w) == [kind |-> "return", exc |-> "", lease_of |-> w]
ConcRaised(x) == [kind |-> "raise", exc |-> x, lease_of |-> ""]

\* pid_file = "/run/dhclient.pid" for every interface.
IscPidFile == <<"/run/dhclient.pid">>

\* self.lease_file = "/run/dhclient.lease" for every interface.
IscLeaseFile == <<"/run/dhclient.lease">>

\* temp_utils.get_tmp_ancestor(needs_exe=True): one directory per process.
tmp_dir == "tmp_dir"

\* os.path.join(tmp_dir, interface + ".lease.json")
UdhcpcLeaseFile(i) == <<tmp_dir, i, ".lease.json">>

\* os.path.join(tmp_dir, "udhcpc_script")
udhcpc_script == <<tmp_dir, "udhcpc_script">>

Paths ==
    {IscPidFile, IscLeaseFile, udhcpc_script}
        \cup {UdhcpcLeaseFile(i) : i \in Ifaces}

\* The pid file, lease file and helper files of the attempt on interface i.
FilesOf(i) ==
    IF conc_driver[i] = "IscDhclient"
    THEN {IscPidFile, IscLeaseFile}
    ELSE {UdhcpcLeaseFile(i), udhcpc_script}

InFlight(i) == conc_pc[i] \notin {"idle", "done"}

\* What the attempt on interface i does to the files of the others when
\* it does `ops` (pairs of path and operation).
Touches(i, ops) ==
    UNION {{[by |-> i, of |-> v, path |-> o[1], op |-> o[2]] :
               o \in {q \in ops : q[1] \in FilesOf(v)}} :
           v \in {w \in Ifaces \ {i} : InFlight(w)}}

ConcInit ==
    /\ DiscoveryInit
    /\ driver = "IscDhclient"
    /\ netops = "iproute2"
    /\ ParsersIdle
    /\ SelectIdle
    /\ LeaseFileIdle
    /\ TailIdle
    /\ UrlIdle
    /\ conc_driver \in [Ifaces -> ConcDrivers]
    /\ conc_pc = [i \in Ifaces |-> "idle"]
    /\ run_files \in [Paths -> {NoFile, Stale}]
    /\ touched = {}
    /\ conc_result = [i \in Ifaces |-> ConcNotCalled]

ConcUnchanged == UNCHANGED <<discovery_vars, parser_vars, select_vars,
                             leasefile_vars, tail_vars, url_vars,
                             conc_driver>>

\* client.dhcp_discovery(i, distro=distro) is called.
ConcDiscovery(i) ==
    /\ conc_pc[i] = "idle"
    /\ conc_pc' = [conc_pc EXCEPT ![i] = "prepare"]
    /\ conc_result' = [conc_result EXCEPT ![i] = ConcNotCalled]
    /\ UNCHANGED <<run_files, touched>>
    /\ ConcUnchanged

\* IscDhclient.dhcp_discovery: with suppress(FileNotFoundError):
\* os.remove(pid_file); os.remove(self.lease_file), then link_up.
ConcIscPrepare(i) ==
    /\ conc_pc[i] = "prepare"
    /\ conc_driver[i] = "IscDhclient"
    /\ LET pid == IscPidFile
           lf == IscLeaseFile
       IN  IF run_files[pid] = NoFile
           THEN /\ run_files' = run_files
                /\ touched' = touched \cup Touches(i, {<<pid, "delete">>})
           ELSE /\ run_files' = [run_files EXCEPT ![pid] = NoFile,
                                                  ![lf] = NoFile]
                /\ touched' = touched \cup
                       Touches(i, {<<pid, "delete">>, <<lf, "delete">>})
    /\ conc_pc' = [conc_pc EXCEPT ![i] = "spawn"]
    /\ UNCHANGED conc_result
    /\ ConcUnchanged

\* subp.subp(distro.build_dhclient_cmd(..., self.lease_file, pid_file,
\* interface, ...)): dhclient writes the two files it was given, or
\* fails, or returns before it has written them.
ConcIscSpawn(i) ==
    /\ conc_pc[i] = "spawn"
    /\ conc_driver[i] = "IscDhclient"
    /\ LET pid == IscPidFile
           lf == IscLeaseFile
       IN  \/ /\ run_files' = [run_files EXCEPT ![pid] = i, ![lf] = i]
              /\ touched' = touched \cup
                     Touches(i, {<<pid, "write">>, <<lf, "write">>})
              /\ conc_pc' = [conc_pc EXCEPT ![i] = "await"]
              /\ UNCHANGED conc_result
           \/ /\ conc_pc' = [conc_pc EXCEPT ![i] = "await"]
              /\ UNCHANGED <<run_files, touched, conc_result>>
           \/ /\ conc_pc' = [conc_pc EXCEPT ![i] = "done"]
              /\ conc_result' =
                     [conc_result EXCEPT ![i] = ConcRaised("NoDHCPLeaseError")]
              /\ UNCHANGED <<run_files, touched>>
    /\ ConcUnchanged

\* util.wait_for_files([pid_file, self.lease_file], ...); return {} when
\* one is missing.
ConcIscAwait(i) ==
    /\ conc_pc[i] = "await"
    /\ conc_driver[i] = "IscDhclient"
    /\ LET pid == IscPidFile
           lf == IscLeaseFile
       IN  /\ touched' = touched \cup
                  Touches(i, {<<pid, "read">>, <<lf, "read">>})
           /\ IF run_files[pid] = NoFile \/ run_files[lf] = NoFile
              THEN /\ conc_pc' = [conc_pc EXCEPT ![i] = "done"]
                   /\ conc_result' =
                          [conc_result EXCEPT ![i] = ConcReturned("")]
              ELSE /\ conc_pc' = [conc_pc EXCEPT ![i] = "loop"]
                   /\ UNCHANGED conc_result
    /\ UNCHANGED run_files
    /\ ConcUnchanged

\* The daemonization loop: util.load_file(pid_file), then os.kill of the
\* pid it names.
ConcIscLoop(i) ==
    /\ conc_pc[i] = "loop"
    /\ conc_driver[i] = "IscDhclient"
    /\ touched' = touched \cup Touches(i, {<<IscPidFile, "read">>})
    /\ conc_pc' = [conc_pc EXCEPT ![i] = "read"]
    /\ UNCHANGED <<run_files, conc_result>>
    /\ ConcUnchanged

\* lease = self.get_newest_lease(interface): the lease in the file is the
\* one of whoever wrote the file last.
ConcIscRead(i) ==
    /\ conc_pc[i] = "read"
    /\ conc_driver[i] = "IscDhclient"
    /\ LET lf == IscLeaseFile
       IN  /\ touched' = touched \cup Touches(i, {<<lf, "read">>})
           /\ conc_result' =
                  [conc_result EXCEPT ![i] =
                      IF run_files[lf] = NoFile THEN ConcReturned("")
                      ELSE ConcReturned(run_files[lf])]
    /\ conc_pc' = [conc_pc EXCEPT ![i] = "done"]
    /\ UNCHANGED run_files
    /\ ConcUnchanged

\* Udhcpc.dhcp_discovery: os.remove(self.lease_file), link_up.
ConcUdhcpcPrepare(i) ==
    /\ conc_pc[i] = "prepare"
    /\ conc_driver[i] = "Udhcpc"
    /\ run_files' = [run_files EXCEPT ![UdhcpcLeaseFile(i)] = NoFile]
    /\ touched' = touched \cup Touches(i, {<<UdhcpcLeaseFile(i), "delete">>})
    /\ conc_pc' = [conc_pc EXCEPT ![i] = "script"]
    /\ UNCHANGED conc_result
    /\ ConcUnchanged

\* util.write_file(udhcpc_script, UDHCPC_SCRIPT, 0o755)
ConcUdhcpcWriteScript(i) ==
    /\ conc_pc[i] = "script"
    /\ conc_driver[i] = "Udhcpc"
    /\ run_files' = [run_files EXCEPT ![udhcpc_script] = i]
    /\ touched' = touched \cup Touches(i, {<<udhcpc_script, "write">>})
    /\ conc_pc' = [conc_pc EXCEPT ![i] = "spawn"]
    /\ UNCHANGED conc_result
    /\ ConcUnchanged

\* subp.subp(cmd, update_env={"LEASE_FILE": self.lease_file}): udhcpc runs
\* the script, which writes $LEASE_FILE on bound and renew.
ConcUdhcpcSpawn(i) ==
    /\ conc_pc[i] = "spawn"
    /\ conc_driver[i] = "Udhcpc"
    /\ \/ /\ run_files' = [run_files EXCEPT ![UdhcpcLeaseFile(i)] = i]
          /\ touched' = touched \cup
                 Touches(i, {<<udhcpc_script, "read">>,
                             <<UdhcpcLeaseFile(i), "write">>})
          /\ conc_pc' = [conc_pc EXCEPT ![i] = "read"]
          /\ UNCHANGED conc_result
       \/ /\ touched' = touched \cup Touches(i, {<<udhcpc_script, "read">>})
          /\ conc_pc' = [conc_pc EXCEPT ![i] = "read"]
          /\ UNCHANGED <<run_files, conc_result>>
       \/ /\ conc_pc' = [conc_pc EXCEPT ![i] = "done"]
          /\ conc_result' =
                 [conc_result EXCEPT ![i] = ConcRaised("NoDHCPLeaseError")]
          /\ UNCHANGED <<run_files, touched>>
    /\ ConcUnchanged

\* return self.get_newest_lease(interface)
ConcUdhcpcRead(i) ==
    /\ conc_pc[i] = "read"
    /\ conc_driver[i] = "Udhcpc"
    /\ LET lf == UdhcpcLeaseFile(i)
       IN  /\ touched' = touched \cup Touches(i, {<<lf, "read">>})
           /\ conc_result' =
                  [conc_result EXCEPT ![i] =
                      IF run_files[lf] = NoFile
                      THEN ConcRaised("FileNotFoundError")
                      ELSE ConcReturned(run_files[lf])]
    /\ conc_pc' = [conc_pc EXCEPT ![i] = "done"]
    /\ UNCHANGED run_files
    /\ ConcUnchanged

ConcNext ==
    \E i \in Ifaces :
        \/ ConcDiscovery(i)
        \/ ConcIscPrepare(i)
        \/ ConcIscSpawn(i)
        \/ ConcIscAwait(i)
        \/ ConcIscLoop(i)
        \/ ConcIscRead(i)
        \/ ConcUdhcpcPrepare(i)
        \/ ConcUdhcpcWriteScript(i)
        \/ ConcUdhcpcSpawn(i)
        \/ ConcUdhcpcRead(i)

ConcSpec == ConcInit /\ [][ConcNext]_vars

\* C25: with one attempt per interface, no attempt deletes, writes or
\* reads the pid file, lease file or helper file of another attempt that
\* is in flight.
C25_FilesExclusivelyOwned == touched = {}

\* ---------------------------------------------------------------------
\* url_helper.dual_stack: one thread per address runs func(address); the
\* calling thread waits for the first call to complete.
\* ---------------------------------------------------------------------

\* Largest number of addresses given to dual_stack.
MaxAddresses == 2

Addrs == {"one", "two"}

\* What func(addr) does once called: return a result, return an empty
\* result, raise, raise concurrent.futures.TimeoutError, or not return.
FuncOutcomes == {"value", "empty", "raise", "raise_timeout", "hang"}

\* max_timeout: int = 10, or None as wait_for_url passes by default.
Timeouts == {"None", "10"}

\* The result func(addr) returns.
ResultOf(addr) == <<"result", addr>>
EmptyResult == <<"">>

DualReturned(v) == [kind |-> "return", exc |-> "", value |-> v]
DualRaised(x) == [kind |-> "raise", exc |-> x, value |-> None]

\* What the calling thread gets from future.result() of call i and does
\* with it: the "except TimeoutError" clause also takes what func raised.
FutureResult(i) ==
    LET b == behaviour[addresses[i]]
    IN  IF b = "value" THEN DualReturned(ResultOf(addresses[i]))
        ELSE IF b = "empty" THEN DualReturned(EmptyResult)
        ELSE IF b = "raise_timeout" THEN DualReturned(None)
        ELSE DualRaised("Exception")

\* executor.shutdown(wait=False, cancel_futures=True): the calls still in
\* the queue are cancelled, the ones a thread has picked up go on.
shutdown ==
    [i \in DOMAIN futures |->
        IF futures[i] = "queued" THEN "cancelled" ELSE futures[i]]

DualInit ==
    /\ DiscoveryInit
    /\ driver = "IscDhclient"
    /\ netops = "iproute2"
    /\ ParsersIdle
    /\ SelectIdle
    /\ LeaseFileIdle
    /\ TailIdle
    /\ ConcIdle
    /\ WaitIdle
    /\ addresses \in UNION {[1..n -> Addrs] : n \in 0..MaxAddresses}
    /\ behaviour \in [Addrs -> FuncOutcomes]
    /\ max_timeout \in Timeouts
    /\ futures = <<>>
    /\ seen = {}
    /\ first_done = 0
    /\ ds_pc = "start"
    /\ return_result = NotCalled
    /\ late_calls = {}
    /\ requests = <<>>

DualUnchanged == UNCHANGED <<discovery_vars, parser_vars, select_vars,
                             leasefile_vars, tail_vars, conc_vars, addresses,
                             behaviour, max_timeout>>

\* executor = ThreadPoolExecutor(max_workers=len(addresses)), which
\* raises ValueError for no address; then every call is submitted.
Submit ==
    /\ ds_pc = "start"
    /\ IF addresses = <<>>
       THEN /\ ds_pc' = "done"
            /\ return_result' = DualRaised("ValueError")
            /\ UNCHANGED futures
       ELSE /\ ds_pc' = "submitted"
            /\ futures' = [i \in DOMAIN addresses |-> "queued"]
            /\ UNCHANGED return_result
    /\ UNCHANGED <<seen, first_done, late_calls, requests,
                   wait_vars>>
    /\ DualUnchanged

\* A worker thread takes call i from the queue and enters _run_func: for
\* every address but the first it sleeps stagger_delay first.
RunFunc(i) ==
    /\ i \in DOMAIN futures
    /\ futures[i] = "queued"
    /\ futures' = [futures EXCEPT ![i] = "running"]
    /\ UNCHANGED <<seen, first_done, ds_pc, return_result, late_calls,
                   requests, wait_vars>>
    /\ DualUnchanged

\* return func(addr): the thread of call i calls func.
CallFunc(i) ==
    /\ i \in DOMAIN futures
    /\ futures[i] = "running"
    /\ futures' = [futures EXCEPT ![i] = "calling"]
    /\ late_calls' = IF ds_pc = "done" THEN late_calls \cup {addresses[i]}
                     ELSE late_calls
    /\ requests' = Append(requests, addresses[i])
    /\ UNCHANGED <<seen, first_done, ds_pc, return_result, wait_vars>>
    /\ DualUnchanged

\* func(addr) returns or raises: the future of call i is finished.
\* first_done is the first call finished while dual_stack still waits.
FuncEnds(i) ==
    /\ i \in DOMAIN futures
    /\ futures[i] = "calling"
    /\ behaviour[addresses[i]] # "hang"
    /\ futures' = [futures EXCEPT ![i] = "finished"]
    /\ first_done' = IF first_done = 0 /\ ds_pc \in {"submitted", "waiting"}
                     THEN i ELSE first_done
    /\ UNCHANGED <<seen, ds_pc, return_result, late_calls, requests,
                   wait_vars>>
    /\ DualUnchanged

\* as_completed(futures, timeout=max_timeout) is entered: the futures
\* already finished are set aside to be yielded first, in no fixed order.
as_completed ==
    /\ ds_pc = "submitted"
    /\ seen' = {i \in DOMAIN futures : futures[i] = "finished"}
    /\ ds_pc' = "waiting"
    /\ UNCHANGED <<futures, first_done, return_result, late_calls,
                   requests, wait_vars>>
    /\ DualUnchanged

\* future = next(as_completed(...)); return_result = future.result()
FirstCompleted ==
    /\ ds_pc = "waiting"
    /\ \E i \in (IF seen # {} THEN seen ELSE {first_done} \ {0}) :
           return_result' = FutureResult(i)
    /\ ds_pc' = "shutdown"
    /\ UNCHANGED <<futures, seen, first_done, late_calls, requests,
                   wait_vars>>
    /\ DualUnchanged

\* as_completed raises TimeoutError when max_timeout expires with no
\* future finished: except TimeoutError, return_result stays None.
TimedOut ==
    /\ ds_pc = "waiting"
    /\ max_timeout # "None"
    /\ seen = {}
    /\ first_done = 0
    /\ return_result' = DualReturned(None)
    /\ ds_pc' = "shutdown"
    /\ UNCHANGED <<futures, seen, first_done, late_calls, requests,
                   wait_vars>>
    /\ DualUnchanged

\* finally: executor.shutdown(wait=False, cancel_futures=True), and
\* dual_stack returns or lets the exception through.
Shutdown ==
    /\ ds_pc = "shutdown"
    /\ futures' = shutdown
    /\ ds_pc' = "done"
    /\ UNCHANGED <<seen, first_done, return_result, late_calls, requests,
                   wait_vars>>
    /\ DualUnchanged

Threads == \E i \in 1..MaxAddresses : RunFunc(i) \/ CallFunc(i) \/ FuncEnds(i)

DualNext ==
    \/ Submit
    \/ Threads
    \/ as_completed
    \/ FirstCompleted
    \/ TimedOut
    \/ Shutdown

DualSpec == DualInit /\ [][DualNext]_vars

\* dual_stack has returned or raised after waiting for its calls.
DualEnded == ds_pc = "done" /\ addresses # <<>>

\* C29, first part: the result is the one of the call that completed
\* first, whatever its position among the addresses.
C29_FirstCompletedReturned ==
    (DualEnded /\ first_done # 0
       /\ behaviour[addresses[first_done]] \in {"value", "empty"})
        => return_result = FutureResult(first_done)

\* C29, second part: the calls that have not finished are cancelled.
C29_UnfinishedCancelled ==
    DualEnded => \A i \in DOMAIN futures :
                     futures[i] \in {"finished", "cancelled"}

\* C29, third part: the exception of the first completed call is raised.
C29_FirstExceptionRaised ==
    (DualEnded /\ first_done # 0
       /\ behaviour[addresses[first_done]] \in {"raise", "raise_timeout"})
        => return_result.kind = "raise"

\* C29: dual_stack returns the result of the call that completes first,
\* cancels the calls that have not finished and re-raises the exception
\* of the first completed call.
C29_FirstResultOthersCancelled ==
    /\ C29_FirstCompletedReturned
    /\ C29_UnfinishedCancelled
    /\ C29_FirstExceptionRaised

\* ---------------------------------------------------------------------
\* url_helper.wait_for_url with connect_synchronously=False: each pass
\* of the loop is read_url_parallel, which runs dual_stack.
\* ---------------------------------------------------------------------

\* Largest number of urls given to wait_for_url.
MaxUrls == 2

\* Largest number of passes of the `while True` loop that are followed.
MaxLoops == 2

\* What readurl(url, ..., check_status=False) does: a response with
\* contents, a response without, UrlError, or no answer.
ReadOutcomes == {"value", "empty", "raise", "hang"}

\* max_wait: None, a number <= 0, a number > 0.
MaxWaits == {"None", "0", "10"}

\* return url, response.contents
UrlAndContents(url) == <<url, "contents">>

\* return False, None
FalseNone == <<"False", "None">>

WaitInit ==
    /\ DiscoveryInit
    /\ driver = "IscDhclient"
    /\ netops = "iproute2"
    /\ ParsersIdle
    /\ SelectIdle
    /\ LeaseFileIdle
    /\ TailIdle
    /\ ConcIdle
    /\ addresses = <<>>
    /\ behaviour \in [Addrs -> ReadOutcomes]
    /\ max_timeout \in Timeouts
    /\ futures = <<>>
    /\ seen = {}
    /\ first_done = 0
    /\ ds_pc = "idle"
    /\ return_result = NotCalled
    /\ late_calls = {}
    /\ requests = <<>>
    /\ urls \in UNION {[1..n -> Addrs] : n \in 0..MaxUrls}
    /\ max_wait \in MaxWaits
    /\ loop_n = 0
    /\ connect_synchronously \in BOOLEAN
    /\ url_idx = 1
    /\ wf_pc = "loop"
    /\ wf_result = NotCalled

WaitUnchanged == UNCHANGED <<discovery_vars, parser_vars, select_vars,
                             leasefile_vars, tail_vars, conc_vars, behaviour,
                             max_timeout, urls, max_wait,
                             connect_synchronously>>

\* timeup(max_wait, start_time): False for None, True for a number <= 0,
\* and for a positive number whatever the clock says.
timeup ==
    IF max_wait = "None" THEN {FALSE}
    ELSE IF max_wait = "0" THEN {TRUE}
    ELSE BOOLEAN

\* read_url_parallel calls readurl_handle_exceptions(url_reader_parallel,
\* urls[0]), that is dual_stack(url_reader_serial, urls[0], ...); urls[0]
\* raises IndexError for no url.
read_url_parallel ==
    /\ wf_pc = "loop"
    /\ ~connect_synchronously
    /\ IF urls = <<>>
       THEN /\ wf_pc' = "done"
            /\ wf_result' = DualRaised("IndexError")
            /\ UNCHANGED <<addresses, futures, seen, first_done, ds_pc,
                           return_result>>
       ELSE /\ wf_pc' = "reading"
            /\ addresses' = <<urls[1]>>
            /\ futures' = <<>>
            /\ seen' = {}
            /\ first_done' = 0
            /\ ds_pc' = "start"
            /\ return_result' = NotCalled
            /\ UNCHANGED wf_result
    /\ UNCHANGED <<late_calls, requests, loop_n, url_idx>>
    /\ WaitUnchanged

\* read_url_handle_response finds contents in what dual_stack returned.
Answered ==
    /\ return_result.kind = "return"
    /\ return_result.value \notin {None, EmptyResult}

\* if not url_exc: return url, response.contents
readurl_handle_exceptions_Returns ==
    /\ wf_pc = "reading"
    /\ ds_pc = "done"
    /\ Answered
    /\ wf_result' = DualReturned(UrlAndContents(addresses[1]))
    /\ wf_pc' = "done"
    /\ ds_pc' = "idle"
    /\ UNCHANGED <<addresses, futures, seen, first_done, return_result,
                   late_calls, requests, loop_n, url_idx>>
    /\ WaitUnchanged

\* An empty response, an exception or None from dual_stack: out is None;
\* if timeup(max_wait, start_time): break; return False, None
GiveUp ==
    /\ wf_pc = "reading"
    /\ ds_pc = "done"
    /\ ~Answered
    /\ TRUE \in timeup
    /\ wf_result' = DualReturned(FalseNone)
    /\ wf_pc' = "done"
    /\ ds_pc' = "idle"
    /\ UNCHANGED <<addresses, futures, seen, first_done, return_result,
                   late_calls, requests, loop_n, url_idx>>
    /\ WaitUnchanged

\* out is None and the time is not up: loop_n = loop_n + 1, sleep, and
\* the next pass of the loop.
TryAgain ==
    /\ wf_pc = "reading"
    /\ ds_pc = "done"
    /\ ~Answered
    /\ FALSE \in timeup
    /\ loop_n < MaxLoops
    /\ loop_n' = loop_n + 1
    /\ wf_pc' = "loop"
    /\ ds_pc' = "idle"
    /\ UNCHANGED <<addresses, futures, seen, first_done, return_result,
                   late_calls, requests, url_idx, wf_result>>
    /\ WaitUnchanged

\* read_url_serial, one turn of `for url in urls`: out =
\* readurl_handle_exceptions(url_reader_serial, url); if out: return out.
\* A read that gets no answer ends with UrlError once timeout is over,
\* and never ends when timeout is None.
read_url_serial ==
    /\ wf_pc = "loop"
    /\ connect_synchronously
    /\ url_idx \in DOMAIN urls
    /\ loop_n = 0 \/ FALSE \in timeup
    /\ ~(behaviour[urls[url_idx]] = "hang" /\ max_timeout = "None")
    /\ requests' = Append(requests, urls[url_idx])
    /\ IF behaviour[urls[url_idx]] = "value"
       THEN /\ wf_result' = DualReturned(UrlAndContents(urls[url_idx]))
            /\ wf_pc' = "done"
            /\ UNCHANGED url_idx
       ELSE /\ url_idx' = url_idx + 1
            /\ UNCHANGED <<wf_pc, wf_result>>
    /\ UNCHANGED <<addresses, futures, seen, first_done, ds_pc,
                   return_result, late_calls, loop_n>>
    /\ WaitUnchanged

\* read_url_serial returns None: the urls are exhausted, or on a later
\* pass timeup(max_wait, start_time) holds before a url is read.
read_url_serial_ReturnsNone ==
    /\ wf_pc = "loop"
    /\ connect_synchronously
    /\ \/ url_idx \notin DOMAIN urls
       \/ loop_n # 0 /\ TRUE \in timeup
    /\ wf_pc' = "after_pass"
    /\ UNCHANGED <<dual_vars, loop_n, url_idx, wf_result>>
    /\ WaitUnchanged

\* After a serial pass without an answer: if timeup(max_wait,
\* start_time): break; return False, None
GiveUpSerial ==
    /\ wf_pc = "after_pass"
    /\ TRUE \in timeup
    /\ wf_result' = DualReturned(FalseNone)
    /\ wf_pc' = "done"
    /\ UNCHANGED <<dual_vars, loop_n, url_idx>>
    /\ WaitUnchanged

\* After a serial pass without an answer and with time left: loop_n =
\* loop_n + 1, sleep, and the urls are read again from the first.
TryAgainSerial ==
    /\ wf_pc = "after_pass"
    /\ FALSE \in timeup
    /\ loop_n < MaxLoops
    /\ loop_n' = loop_n + 1
    /\ url_idx' = 1
    /\ wf_pc' = "loop"
    /\ UNCHANGED <<dual_vars, wf_result>>
    /\ WaitUnchanged

WaitNext ==
    \/ read_url_parallel
    \/ DualNext
    \/ readurl_handle_exceptions_Returns
    \/ GiveUp
    \/ TryAgain
    \/ read_url_serial
    \/ read_url_serial_ReturnsNone
    \/ GiveUpSerial
    \/ TryAgainSerial

WaitSpec == WaitInit /\ [][WaitNext]_vars

\* The urls that answer successfully.
Successful == {k \in DOMAIN urls : behaviour[urls[k]] = "value"}

\* C30: with connect_synchronously=False and no timeout that cuts a read
\* short, when some url answers successfully wait_for_url returns
\* (url, contents) of a url that does, whatever its position in the list.
C30_AnyPositionReturned ==
    (wf_pc = "done" /\ ~connect_synchronously /\ max_timeout = "None"
       /\ Successful # {}) =>
        /\ wf_result.kind = "return"
        /\ \E k \in Successful : wf_result.value = UrlAndContents(urls[k])

\* wait_for_url returned (url, contents).
ReturnedAnswer ==
    /\ wf_result.kind = "return"
    /\ wf_result.value # FalseNone

\* dual_stack stopped waiting with no call completed.
NoCallCompleted ==
    /\ ds_pc \in {"shutdown", "done"}
    /\ addresses # <<>>
    /\ seen = {}
    /\ first_done = 0

\* C31, first part: when no call completes within max_timeout,
\* dual_stack returns None and does not raise.
C31_TimeoutReturnsNone ==
    NoCallCompleted => return_result = DualReturned(None)

\* C31, second part: with max_wait <= 0 and no url answering, wait_for_url
\* requests each url once, in one pass, and returns (False, None).
C31_OnePassThenFalseNone ==
    (wf_pc = "done" /\ max_wait = "0" /\ ~ReturnedAnswer) =>
        /\ wf_result = DualReturned(FalseNone)
        /\ loop_n = 0
        /\ requests = urls

\* C31: dual_stack returns None without raising when no call completes
\* within max_timeout, and wait_for_url with max_wait <= 0 makes exactly
\* one pass over the urls and returns (False, None) when none answered.
C31_TimeoutAndSinglePass ==
    /\ C31_TimeoutReturnsNone
    /\ C31_OnePassThenFalseNone

\* ---------------------------------------------------------------------
\* The kill of the daemonization loop of IscDhclient.dhcp_discovery.
\* ---------------------------------------------------------------------

\* This step sends SIGKILL.
Kills ==
    /\ Len(steps') = Len(steps) + 1
    /\ steps'[Len(steps')] = "kill"

\* C32: SIGKILL goes only to the pid read as an integer from the pid file
\* whose parent was seen to be init in the same iteration, never to a
\* process not confirmed as a daemon, and at most once per attempt.
C32_KillOnlyConfirmedDaemon ==
    [][Kills =>
          /\ pid_file.tag = "pid"
          /\ proc[pid_file.by] = "daemon"
          /\ \A a \in Attempts : proc'[a] # proc[a] => a = pid_file.by
          /\ ~Did("kill")]_vars

\* The loop has killed the daemon it confirmed.
C32_Witness ==
    /\ driver = "IscDhclient"
    /\ Did("kill")
    /\ daemonized
    /\ \E a \in Attempts : proc[a] = "killed"

\* ---------------------------------------------------------------------
\* Length and termination of the daemonization loop.
\* ---------------------------------------------------------------------

\* DhcpClient.timeout, in seconds.
timeout == 10

\* sleep_time = 0.01, in milliseconds.
sleep_time_ms == 10

\* sleep_cycles = int(self.timeout / sleep_time)
sleep_cycles == (timeout * 1000) \div sleep_time_ms

\* The thread that called dhcp_discovery keeps running: after each
\* time.sleep(sleep_time) the loop takes its next turn.
FairSpec == Spec /\ WF_vars(IscDaemonLoop)

\* A turn of the loop that found no pid file, no integer in it, or a
\* parent pid other than 1.
UnconfirmedTurn ==
    /\ pc = "loop"
    /\ driver = "IscDhclient"
    /\ cycles < SleepCycles
    /\ pid_file.tag # "pid" \/ proc[pid_file.by] # "daemon"
    /\ <<pc, cycles, steps, result>>' # <<pc, cycles, steps, result>>

\* C33: the daemonization loop runs at most int(timeout / sleep_time)
\* turns, 1000 for timeout 10 and a 10 ms quantum; a missing pid file, a
\* non-integer pid or a parent pid other than 1 lead to another turn and
\* not to an error; and the loop always ends.
C33_LoopBoundedAndTerminates ==
    /\ [](cycles <= SleepCycles)
    /\ [](sleep_cycles = 1000)
    /\ [][UnconfirmedTurn =>
             /\ cycles' = cycles + 1
             /\ pc' = "loop"
             /\ result' = result]_vars
    /\ [](pc = "loop" => <>(pc # "loop"))

\* The loop is in a later turn after one that found no usable pid.
C33_Witness ==
    /\ pc = "loop"
    /\ driver = "IscDhclient"
    /\ cycles > 0
    /\ pid_file.tag # "pid"

\* ---------------------------------------------------------------------
\* Order and consumption of tokens in IscDhclient.parse_static_routes.
\* ---------------------------------------------------------------------

\* Number of tokens the first n routes of rs were built from.
RECURSIVE TokensUsed(_, _)
TokensUsed(rs, n) ==
    IF n = 0 THEN 0 ELSE TokensUsed(rs, n - 1) + ReqToks(rs[n].len)

\* Route i of rs is built from the tokens that start right after the
\* tokens of routes 1..i-1: its prefix length, destination and gateway.
BuiltInPlace(tokens, rs, i) ==
    LET start == TokensUsed(rs, i - 1)
        req == ReqToks(rs[i].len)
    IN  /\ req > 0
        /\ start + req <= Len(tokens)
        /\ IsInt(tokens[start + 1])
        /\ IntOf[tokens[start + 1]] = rs[i].len
        /\ rs[i].net = NetAddress(tokens, start, rs[i].len)
        /\ rs[i].gw = SubSeq(tokens, start + req - 3, start + req)

\* C34: IscDhclient.parse_static_routes keeps the source order and reads
\* each token at most once: route i comes from the contiguous group that
\* starts right after the group of route i-1, and there are never more
\* routes than floor(token count / 5).
C34_ContiguousGroupsInOrder ==
    (driver = "IscDhclient" /\ static_routes.kind = "return") =>
        LET tokens == IscTokens(routes)
            rs == static_routes.value
        IN  /\ \A i \in DOMAIN rs : BuiltInPlace(tokens, rs, i)
            /\ Len(rs) <= Len(tokens) \div 5

\* Two routes were parsed, the second from the group after the first.
C34_Witness ==
    /\ driver = "IscDhclient"
    /\ static_routes.kind = "return"
    /\ Len(static_routes.value) = 2
    /\ static_routes.value[1].len # static_routes.value[2].len

\* Index of the token at which a cursor that starts at `at` and steps over
\* complete routes comes to rest.
RECURSIVE Cursor(_, _)
Cursor(tokens, at) ==
    IF at > Len(tokens) THEN at
    ELSE IF ~IsInt(tokens[at]) THEN at
    ELSE IF ReqToks(IntOf[tokens[at]]) = 0 THEN at
    ELSE IF at - 1 + ReqToks(IntOf[tokens[at]]) > Len(tokens) THEN at
    ELSE Cursor(tokens, at + ReqToks(IntOf[tokens[at]]))

\* The token read as a prefix length is a number outside 0..32.
OutOfRange(tok) == IsInt(tok) /\ IntOf[tok] \notin 0..32

\* C35: a prefix-length token outside 0..32 makes IscDhclient.
\* parse_static_routes stop and return the routes parsed before it,
\* without raising and without a route for that token.
C35_BadPrefixStopsParse ==
    (IscParsed /\ Cursor(IscTokens(routes), 1) \in DOMAIN IscTokens(routes)
       /\ OutOfRange(IscTokens(routes)[Cursor(IscTokens(routes), 1)])) =>
        LET tokens == IscTokens(routes)
            rs == static_routes.value
        IN  /\ static_routes.kind = "return"
            /\ \A i \in DOMAIN rs : BuiltInPlace(tokens, rs, i)
            /\ TokensUsed(rs, Len(rs)) = Cursor(tokens, 1) - 1

\* A negative prefix length followed a complete route, which was returned.
C35_Witness ==
    /\ IscParsed
    /\ Len(static_routes.value) = 1
    /\ Cursor(IscTokens(routes), 1) \in DOMAIN IscTokens(routes)
    /\ IscTokens(routes)[Cursor(IscTokens(routes), 1)] = "-1"

\* ---------------------------------------------------------------------
\* IscDhclient.parse_leases on any block content.
\* ---------------------------------------------------------------------

\* C36: parse_leases returns one mapping per lease block, in file order,
\* with quotes and the "option " prefix stripped from each entry; empty
\* content gives the empty list; and it raises for no block content, an
\* entry that is a key without a value included.
C36_OneMappingPerBlockNoRaise ==
    dhcp_leases.kind # "none" =>
        /\ dhcp_leases.kind = "return"
        /\ lease_content = <<>> => dhcp_leases.value = <<>>
        /\ \A c \in LeaseFileChoices :
              (c[2] /\ lease_content = LeaseFileText(c[1], c[2])) =>
                  /\ Len(dhcp_leases.value) = Len(c[1])
                  /\ \A i \in DOMAIN c[1] :
                        AsMap(dhcp_leases.value[i]) = AsMap(c[1][i].options)

\* ---------------------------------------------------------------------
\* The interface key of a dhcpcd lease.
\* ---------------------------------------------------------------------

\* C38: every lease Dhcpcd.get_newest_lease returns has the key interface
\* with the requested interface as its value, whatever the dump said, so
\* the lease is not empty and `if lease:` in dhcp_discovery never takes
\* the branch that raises "No lease found".
C38_InterfaceAlwaysSet ==
    lease.kind = "return" =>
        /\ KeyInterface \in DictKeys(lease.value)
        /\ DictGet(lease.value, KeyInterface) = Interface
        /\ Cardinality({i \in DOMAIN lease.value :
                           lease.value[i][1] = KeyInterface}) = 1
        /\ lease.value # <<>>

\* C38 witness: the dump said interface=wlan0 and the lease returned says
\* interface is the requested one.
C38_Witness ==
    /\ lease.kind = "return"
    /\ <<KeyInterface, <<"wlan0">> >> \in DumpItems
    /\ DictGet(lease.value, KeyInterface) = Interface

\* ---------------------------------------------------------------------
\* Dhcpcd.dhcp_discovery from `if lease:` on: dhcpcd has exited, stdout is
\* in `out`, get_newest_lease has given a lease that is not empty.
\* ---------------------------------------------------------------------

\* The lines dhcpcd can leave on stdout: one without the marker, one that
\* ends "forked to background, child pid <number>", and one with the
\* marker whose last word is no number.
OutLines == {"log", "forked_pid", "forked_nan"}

MaxOutLines == 2

\* distro.get_proc_pgid(pid): a group id, or None for a pid that is gone.
PgidOutcomes == {"gid", "None"}

\* os.kill(gid, signal.SIGKILL)
KillOutcomes == {"killed", "ProcessLookupError"}

\* util.load_file(pid_file).strip() and int(pid_content)
PidFileOutcomes == {"FileNotFoundError", "ValueError", "pid"}

DhNotCalled == [kind |-> "none", exc |-> ""]
DhReturned == [kind |-> "return", exc |-> ""]
DhRaised(e) == [kind |-> "raise", exc |-> e]

CleanupInit ==
    /\ DiscoveryInit
    /\ driver = "Dhcpcd"
    /\ netops = "iproute2"
    /\ ParsersIdle
    /\ SelectIdle
    /\ LeaseFileIdle
    /\ ConcIdle
    /\ UrlIdle
    /\ DistroIdle
    /\ SubpIdle
    /\ out \in UNION {[1..n -> OutLines] : n \in 1..MaxOutLines}
    /\ line_no = Len(out)
    /\ dh_pc = "stdout"
    /\ kills = <<>>
    /\ pid_file_queried = FALSE
    /\ polls = 0
    /\ dh_result = DhNotCalled

CleanupUnchanged ==
    UNCHANGED <<discovery_vars, parser_vars, select_vars, leasefile_vars,
                conc_vars, url_vars, distro_vars, subp_vars, out>>

\* `break` leaves the loop over the lines, and the statement after the
\* loop is the next one run: LOG.debug("PID not in stdout, ...") and the
\* query for the pid file.
break == "query"

\* One turn of `for line in reversed(out.split("\n"))`; after `break` and
\* after the last line the statement that follows the loop is next.
ScanStdout ==
    /\ dh_pc = "stdout"
    /\ line_no >= 1
    /\ \E pgid \in PgidOutcomes, k \in KillOutcomes :
          LET killed == /\ out[line_no] = "forked_pid"
                        /\ pgid = "gid"
                        /\ k = "killed"
          IN  /\ kills' = IF killed THEN Append(kills, "stdout") ELSE kills
              /\ line_no' = line_no - 1
              /\ dh_pc' = IF killed THEN break
                          ELSE IF line_no = 1 THEN "query"
                          ELSE "stdout"
              /\ UNCHANGED dh_result
    /\ UNCHANGED <<pid_file_queried, polls>>
    /\ CleanupUnchanged

\* pid_file = subp.subp([*command, "-P"]).stdout; a ProcessExecutionError
\* is turned into NoDHCPLeaseError by the handler of the try block.
QueryPidFile ==
    /\ dh_pc = "query"
    /\ pid_file_queried' = TRUE
    /\ \/ /\ dh_pc' = "poll"
          /\ UNCHANGED dh_result
       \/ /\ dh_pc' = "done"
          /\ dh_result' = DhRaised("NoDHCPLeaseError")
    /\ UNCHANGED <<line_no, kills, polls>>
    /\ CleanupUnchanged

\* One turn of `for _ in range(sleep_cycles)`: the file is not there or
\* holds no number, and the loop sleeps; or it holds a pid, the group is
\* killed if there is one, and the lease is returned.  ProcessLookupError
\* of os.kill is not caught here.
PollPidFile ==
    /\ dh_pc = "poll"
    /\ polls < SleepCycles
    /\ polls' = polls + 1
    /\ \E content \in PidFileOutcomes, pgid \in PgidOutcomes,
          k \in KillOutcomes :
          IF content # "pid"
          THEN UNCHANGED <<dh_pc, kills, dh_result>>
          ELSE /\ dh_pc' = "done"
               /\ kills' = IF pgid = "gid" /\ k = "killed"
                           THEN Append(kills, "pid_file") ELSE kills
               /\ dh_result' = IF pgid = "gid" /\ k # "killed"
                               THEN DhRaised("ProcessLookupError")
                               ELSE DhReturned
    /\ UNCHANGED <<line_no, pid_file_queried>>
    /\ CleanupUnchanged

\* The loop ran out of turns: LOG.debug(debug_msg); return lease.
PidFileNeverCame ==
    /\ dh_pc = "poll"
    /\ polls = SleepCycles
    /\ dh_pc' = "done"
    /\ dh_result' = DhReturned
    /\ UNCHANGED <<line_no, kills, pid_file_queried, polls>>
    /\ CleanupUnchanged

CleanupNext ==
    \/ ScanStdout
    \/ QueryPidFile
    \/ PollPidFile
    \/ PidFileNeverCame

CleanupSpec == CleanupInit /\ [][CleanupNext]_vars

MaxFiles == 2

\* os.path.getmtime(abs_path): seconds since the epoch, negative for a
\* time before it; FileNotFoundError for a name that os.listdir gave and
\* that is gone by now or is a link to nothing.
Mtimes == {0 - 2, 0, 1}

\* A name of the listing: whether re.search(regex, fname) finds a match,
\* and what getmtime gives for it.
DirEntries ==
    [matches : BOOLEAN, mtime : Mtimes, stat : {"ok"}]
        \cup [matches : BOOLEAN, mtime : {0}, stat : {"FileNotFoundError"}]

Listings == UNION {[1..n -> DirEntries] : n \in 0..MaxFiles}

\* distro.dhclient_lease_directory: None, a directory that does not
\* exist, or one with a listing.
PrimaryDirs ==
    {[state |-> "unset", files |-> <<>>],
     [state |-> "missing", files |-> <<>>]}
        \cup [state : {"present"}, files : Listings]

\* DHCLIENT_FALLBACK_LEASE_DIR is a constant path: missing or listed.
FallbackDirs ==
    {[state |-> "missing", files |-> <<>>]}
        \cup [state : {"present"}, files : Listings]

\* `for fname in lease_files` from position i on: the position of the
\* latest file so far (0 for none), or FileNotFoundError from getmtime.
RECURSIVE newest_in(_, _, _, _)
newest_in(files, i, latest_mtime, latest) ==
    IF i > Len(files) THEN [exc |-> "", at |-> latest]
    ELSE IF ~files[i].matches
    THEN newest_in(files, i + 1, latest_mtime, latest)
    ELSE IF files[i].stat # "ok"
    THEN [exc |-> files[i].stat, at |-> 0]
    ELSE IF files[i].mtime > latest_mtime
    THEN newest_in(files, i + 1, files[i].mtime, i)
    ELSE newest_in(files, i + 1, latest_mtime, latest)

\* latest_mtime = -1.0
InitialMtime == 0 - 1

\* The loop over (primary, fallback) from directory k on.
RECURSIVE get_newest_lease_file_from_distro(_, _)
get_newest_lease_file_from_distro(dirs, k) ==
    IF k > Len(dirs)
    THEN [kind |-> "return", exc |-> "", value |-> <<>>]
    ELSE IF dirs[k].state # "present"
    THEN get_newest_lease_file_from_distro(dirs, k + 1)
    ELSE LET found == newest_in(dirs[k].files, 1, InitialMtime, 0)
         IN  IF found.exc # ""
             THEN [kind |-> "raise", exc |-> found.exc, value |-> <<>>]
             ELSE IF found.at # 0
             THEN [kind |-> "return", exc |-> "", value |-> <<k, found.at>>]
             ELSE get_newest_lease_file_from_distro(dirs, k + 1)

DistroInit ==
    /\ DiscoveryInit
    /\ driver = "IscDhclient"
    /\ netops = "iproute2"
    /\ ParsersIdle
    /\ SelectIdle
    /\ LeaseFileIdle
    /\ ConcIdle
    /\ UrlIdle
    /\ CleanupIdle
    /\ SubpIdle
    /\ \E p \in PrimaryDirs, f \in FallbackDirs : lease_dirs = <<p, f>>
    /\ latest_file = NotCalled

\* IscDhclient.get_newest_lease_file_from_distro(distro)
GetNewestLeaseFileFromDistro ==
    /\ latest_file = NotCalled
    /\ latest_file' = get_newest_lease_file_from_distro(lease_dirs, 1)
    /\ UNCHANGED <<discovery_vars, parser_vars, select_vars, leasefile_vars,
                   conc_vars, url_vars, cleanup_vars, subp_vars, lease_dirs>>

DistroNext == GetNewestLeaseFileFromDistro

DistroSpec == DistroInit /\ [][DistroNext]_vars

\* The positions of the names of directory k that match its regex.
Matching(k) ==
    {i \in DOMAIN lease_dirs[k].files : lease_dirs[k].files[i].matches}

\* The file at position i of directory k is returned and no matching file
\* of that directory is newer.
NewestOf(k) ==
    /\ Len(latest_file.value) = 2
    /\ latest_file.value[1] = k
    /\ latest_file.value[2] \in Matching(k)
    /\ \A j \in Matching(k) :
          lease_dirs[k].files[j].mtime
              <= lease_dirs[k].files[latest_file.value[2]].mtime

\* C39: get_newest_lease_file_from_distro returns the matching file of the
\* primary directory with the greatest modification time; it looks at the
\* fallback directory only when the primary one is unset, missing or has
\* no matching file; it returns None when neither has a matching file.
C39_NewestPrimaryElseFallback ==
    latest_file.kind # "none" =>
        /\ latest_file.kind = "return"
        /\ IF Matching(1) # {} THEN NewestOf(1)
           ELSE IF Matching(2) # {} THEN NewestOf(2)
           ELSE latest_file.value = <<>>

\* ---------------------------------------------------------------------
\* subp.subp: the exit code of the child against rcs
\* ---------------------------------------------------------------------

MaxRc == 2

\* sp.returncode: 0..MaxRc, or the negated number of the signal that ended
\* the child.
ReturnCodes == (0..MaxRc) \cup {0 - 9}

\* e.errno of the OSError of Popen: ENOENT, ENOEXEC, EACCES.
Errnos == {2, 8, 13}

\* The values of the `decode` parameter.
DecodeModes == {"False", "replace", "ignore", "strict"}

\* rcs as passed: None, or a list of return codes.
RcsChoices ==
    {[given |-> FALSE, list |-> {}]}
        \cup [given : {TRUE}, list : SUBSET (0..MaxRc)]

\* An Optional[int] is the empty set for None and {n} for n; `a or b`.
Or(a, b) == IF a # {} /\ a # {0} THEN a ELSE b

\* ProcessExecutionError(exit_code=..., errno=...): rc = errno or
\* exit_code or 0; self.errno = rc; self.exit_code = rc.
ProcessExecutionError(exit_code, errno) ==
    [kind |-> "raise", exc |-> "ProcessExecutionError",
     exit_code |-> Or(Or(errno, exit_code), {0})]

SubpReturned == [kind |-> "return", exc |-> "", exit_code |-> {}]
SubpRaised(e) == [kind |-> "raise", exc |-> e, exit_code |-> {}]

\* rcs with nothing put in the place of None.
AllowedRcs_NoDefault(r) == r.list

\* if rcs is None: rcs = [0]
AllowedRcs(r) == IF r.given THEN r.list ELSE {0}

SubpInit ==
    /\ DiscoveryInit
    /\ driver = "IscDhclient"
    /\ netops = "iproute2"
    /\ ParsersIdle
    /\ SelectIdle
    /\ LeaseFileIdle
    /\ ConcIdle
    /\ UrlIdle
    /\ CleanupIdle
    /\ DistroIdle
    /\ rcs \in RcsChoices
    /\ decode \in DecodeModes
    /\ sp = [kind |-> "none", rc |-> 0, errno |-> 0, utf8 |-> TRUE]
    /\ subp_result = [kind |-> "none", exc |-> "", exit_code |-> {}]

SubpUnchanged ==
    UNCHANGED <<discovery_vars, parser_vars, select_vars, leasefile_vars,
                conc_vars, url_vars, cleanup_vars, distro_vars, rcs, decode>>

\* sp = subprocess.Popen(...); out, err = sp.communicate(data): the child
\* runs and ends with a return code, its output valid UTF-8 or not.
Popen_communicate ==
    /\ sp.kind = "none"
    /\ \E rc \in ReturnCodes, utf8 \in BOOLEAN :
          sp' = [kind |-> "exit", rc |-> rc, errno |-> 0, utf8 |-> utf8]
    /\ UNCHANGED subp_result
    /\ SubpUnchanged

\* except OSError as e: raise ProcessExecutionError(cmd=args,
\* reason=str(e), errno=e.errno) from e
Popen_OSError ==
    /\ sp.kind = "none"
    /\ \E errno \in Errnos :
          /\ sp' = [kind |-> "OSError", rc |-> 0, errno |-> errno,
                    utf8 |-> TRUE]
          /\ subp_result' = ProcessExecutionError({}, {errno})
    /\ SubpUnchanged

\* rc = sp.returncode; if rc not in rcs: raise ProcessExecutionError(...,
\* exit_code=rc, ...); if decode: out = ldecode(out), err = ldecode(err),
\* where bytes.decode("utf-8", "strict") raises UnicodeDecodeError;
\* return SubpResult(out, err).
CheckReturnCode ==
    /\ sp.kind = "exit"
    /\ subp_result.kind = "none"
    /\ subp_result' =
          IF sp.rc \notin AllowedRcs(rcs)
          THEN ProcessExecutionError({sp.rc}, {})
          ELSE IF decode = "strict" /\ ~sp.utf8
          THEN SubpRaised("UnicodeDecodeError")
          ELSE SubpReturned
    /\ UNCHANGED sp
    /\ SubpUnchanged

SubpNext ==
    \/ Popen_communicate
    \/ Popen_OSError
    \/ CheckReturnCode

SubpSpec == SubpInit /\ [][SubpNext]_vars

\* The list the claim compares the exit code with: rcs, [0] by default.
Allowed == IF rcs.given THEN rcs.list ELSE {0}

\* ProcessExecutionError with the child's exit code for an exit code not
\* allowed, and with the errno for an OSError of the start.
RaisesWithCode ==
    /\ (sp.kind = "exit" /\ sp.rc \notin Allowed) =>
          /\ subp_result.exc = "ProcessExecutionError"
          /\ subp_result.exit_code = {sp.rc}
    /\ sp.kind = "OSError" =>
          /\ subp_result.exc = "ProcessExecutionError"
          /\ subp_result.exit_code = {sp.errno}

====
